---- MODULE Spec2Model ----
(***************************************************************************)
(* WorkoutTracker: the request handlers of app.py and routes/*.py over the *)
(* tables of models.py.  One action per handler; every action is the whole *)
(* handler, from the login_required decorator to the commit.  The state is *)
(* the database tables, the upload folder, the client's session and the    *)
(* response of the last request.                                           *)
(***************************************************************************)
EXTENDS Integers, Sequences, FiniteSets, TLC

VARIABLES
    users,              \* table users:             id -> row
    exercises,          \* table exercises:         id -> row
    workouts,           \* table workouts:          id -> row
    workout_exercises,  \* table workout_exercises: id -> row
    attachments,        \* table attachments:       id -> row
    files,              \* paths that exist in UPLOAD_FOLDER
    current_user,       \* id of the session's user, Anonymous when logged out
    response,           \* what the last request was and how it was answered
    inflight            \* upload requests between their quota check and commit

vars == <<users, exercises, workouts, workout_exercises, attachments, files,
          current_user, response, inflight>>

tables == <<users, exercises, workouts, workout_exercises, attachments, files>>

-----------------------------------------------------------------------------
(* Bounds of the model *)

(* Spec: rows over all the tables but users *)
MaxRows == 2
(* SpecExercises: rows over exercises, workouts and workout_exercises *)
MaxExerciseRows == 3

(* NULL of a nullable integer column / flask_login's AnonymousUserMixin *)
NULL == 0
Anonymous == 0

(* files.py constants *)
MiB == 1024 * 1024
MAX_FILE_SIZE == 20 * MiB
MAX_TOTAL_SIZE == 100 * MiB
ALLOWED_EXTENSIONS ==
    {<<"p", "n", "g">>, <<"j", "p", "g">>, <<"j", "p", "e", "g">>,
     <<"p", "d", "f">>, <<"t", "x", "t">>, <<"c", "s", "v">>,
     <<"j", "s", "o", "n">>}
(* config.py: Flask refuses a request body longer than this with 413 *)
MAX_CONTENT_LENGTH == 16 * MiB

-----------------------------------------------------------------------------
(* Helpers over tables *)

EmptyTable == [i \in {} |-> NULL]

Max(S) == IF S = {} THEN 0 ELSE CHOOSE m \in S : \A x \in S : x <= m

(* INTEGER PRIMARY KEY of a new row: one more than the largest id in use *)
NewId(table) == Max(DOMAIN table) + 1

Insert(table, id, row) == [i \in DOMAIN table \cup {id} |->
                              IF i = id THEN row ELSE table[i]]

Delete(table, ids) == [i \in DOMAIN table \ ids |-> table[i]]

RECURSIVE SumOver(_, _)
SumOver(f, S) == IF S = {} THEN 0
                 ELSE LET x == CHOOSE y \in S : TRUE
                      IN  f[x] + SumOver(f, S \ {x})

-----------------------------------------------------------------------------
(* models.py: User *)

generate_password_hash(password) == <<"hash", password>>

check_password(user, password) == user.password_hash = generate_password_hash(password)

is_admin(u) == users[u].role = "admin"

can_edit(u) == users[u].role \in {"editor", "admin"}

is_authenticated == current_user # Anonymous

(* mutant: the decorator passes the first of the listed roles only, so   *)
(* an admin is turned away where an editor passes                        *)
role_required_Editor(role_names) == users[current_user].role = "editor"

(* exercises.py role_required: the role test of the decorator *)
role_required(role_names) == users[current_user].role \in role_names

(* the users of tests/conftest.py and seed.py: one per role *)
SeedUsers ==
    [i \in {1, 2, 3} |->
        [username |-> <<"viewer", "editor", "admin">>[i],
         email |-> <<"viewer@test.com", "editor@test.com", "admin@test.com">>[i],
         password_hash |-> generate_password_hash("Password123"),
         role |-> <<"viewer", "editor", "admin">>[i]]]

(* the response of a request: the handler, what it was asked about and  *)
(* how it answered (the flash message and the page, redirect or status)  *)
Respond(op, target, result) ==
    response' = [op |-> op, target |-> target, result |-> result]

-----------------------------------------------------------------------------
(* app.py *)

index ==
    /\ Respond("index", NULL, IF is_authenticated THEN "to_dashboard" ELSE "to_login")
    /\ UNCHANGED <<tables, current_user, inflight>>

dashboard ==
    /\ Respond("dashboard", NULL, IF is_authenticated THEN "page" ELSE "login_redirect")
    /\ UNCHANGED <<tables, current_user, inflight>>

(* mutant: the password is not checked *)
LoginResult_AnyPassword(method, username, password) ==
    IF is_authenticated THEN "to_dashboard"
    ELSE IF method = "GET" THEN "form"
    ELSE IF \E u \in DOMAIN users : users[u].username = username
         THEN "logged_in"
         ELSE "bad_credentials"

LoginResult(method, username, password) ==
    IF is_authenticated THEN "to_dashboard"
    ELSE IF method = "GET" THEN "form"
    ELSE IF \E u \in DOMAIN users :
                /\ users[u].username = username
                /\ check_password(users[u], password)
         THEN "logged_in"
         ELSE "bad_credentials"

login(method, username, password) ==
    /\ Respond("login", <<username, password>>, LoginResult(method, username, password))
    /\ current_user' =
          IF LoginResult(method, username, password) = "logged_in"
          THEN CHOOSE u \in DOMAIN users : users[u].username = username
          ELSE current_user
    /\ UNCHANGED <<tables, inflight>>

(* validators/password_validator.py on the strings the model sends: the *)
(* first rule each of them breaks, "ok" when none                       *)
validate_username(username) ==
    CASE username \in {"", "ab"} -> "too_short"
      [] username = "no spaces" -> "bad_characters"
      [] OTHER -> "ok"

validate_email(email) ==
    CASE email = "" -> "required"
      [] email = "ghost" -> "bad_format"
      [] OTHER -> "ok"

password_validator(password) ==
    CASE password \in {"", "wrong"} -> "too_short"
      [] password = "password123" -> "no_uppercase"
      [] password = "PASSWORD123" -> "no_lowercase"
      [] password = "Passwords" -> "no_digit"
      [] OTHER -> "ok"

(* mutant: the lookup of the email among the users is left out *)
RegisterResult_NoEmailLookup(method, form) ==
    IF is_authenticated THEN "to_dashboard"
    ELSE IF method = "GET" THEN "form"
    ELSE IF validate_username(form.username) # "ok" THEN "invalid"
    ELSE IF validate_email(form.email) # "ok" THEN "invalid"
    ELSE IF password_validator(form.password) # "ok" THEN "invalid"
    ELSE IF form.password # form.confirm_password THEN "invalid"
    ELSE IF \E u \in DOMAIN users : users[u].username = form.username
         THEN "duplicate"
    ELSE "registered"

RegisterResult(method, form) ==
    IF is_authenticated THEN "to_dashboard"
    ELSE IF method = "GET" THEN "form"
    ELSE IF validate_username(form.username) # "ok" THEN "invalid"
    ELSE IF validate_email(form.email) # "ok" THEN "invalid"
    ELSE IF password_validator(form.password) # "ok" THEN "invalid"
    ELSE IF form.password # form.confirm_password THEN "invalid"
    ELSE IF \E u \in DOMAIN users : users[u].username = form.username
         THEN "duplicate"
    ELSE IF \E u \in DOMAIN users : users[u].email = form.email
         THEN "duplicate"
    ELSE "registered"

(* a new user gets the role viewer *)
UserRow(form) ==
    [username |-> form.username,
     email |-> form.email,
     password_hash |-> generate_password_hash(form.password),
     role |-> "viewer"]

register(method, form) ==
    /\ Respond("register", form.username, RegisterResult(method, form))
    /\ users' = IF RegisterResult(method, form) = "registered"
                THEN Insert(users, NewId(users), UserRow(form))
                ELSE users
    /\ UNCHANGED <<exercises, workouts, workout_exercises, attachments, files,
                   current_user, inflight>>

logout ==
    /\ Respond("logout", NULL, IF is_authenticated THEN "logged_out" ELSE "login_redirect")
    /\ current_user' = Anonymous
    /\ UNCHANGED <<tables, inflight>>

-----------------------------------------------------------------------------
(* routes/exercises.py *)

(* str.strip() on the form values the model sends *)
strip(s) == IF s = " " THEN "" ELSE s

(* mutant: the ownership test is left out *)
ExerciseOwnerOrAdmin_Anyone(id) == TRUE

ExerciseOwnerOrAdmin(id) ==
    exercises[id].owner_id = current_user \/ is_admin(current_user)

(* mutant: an admin reads every exercise *)
ExerciseReadable_OrAdmin(id) ==
    \/ exercises[id].is_public
    \/ exercises[id].owner_id = current_user
    \/ is_admin(current_user)

ExerciseReadable(id) ==
    exercises[id].is_public \/ exercises[id].owner_id = current_user

exercises_list ==
    /\ Respond("exercises.list", NULL, IF is_authenticated THEN "page" ELSE "login_redirect")
    /\ UNCHANGED <<tables, current_user, inflight>>

DetailResult(id) ==
    IF ~is_authenticated THEN "login_redirect"
    ELSE IF id \notin DOMAIN exercises THEN "not_found"
    ELSE IF ~ExerciseReadable(id) THEN "no_access"
    ELSE "page"

exercises_detail(id) ==
    /\ Respond("exercises.detail", id, DetailResult(id))
    /\ UNCHANGED <<tables, current_user, inflight>>

FormResult(form) ==
    IF strip(form.name) = "" THEN "invalid"
    ELSE IF strip(form.muscle_group) = "" THEN "invalid"
    ELSE IF strip(form.difficulty) = "" THEN "invalid"
    ELSE "saved"

CreateResult(method, form) ==
    IF ~is_authenticated THEN "login_redirect"
    ELSE IF ~role_required({"editor", "admin"}) THEN "forbidden_role"
    ELSE IF method = "GET" THEN "form"
    ELSE FormResult(form)

(* mutant: the row is given to the actor who saves it *)
ExerciseRow_ActorOwns(form, owner) ==
    [name |-> strip(form.name),
     description |-> strip(form.description),
     muscle_group |-> strip(form.muscle_group),
     equipment |-> strip(form.equipment),
     difficulty |-> strip(form.difficulty),
     is_public |-> form.is_public = "on",
     owner_id |-> current_user]

ExerciseRow(form, owner) ==
    [name |-> strip(form.name),
     description |-> strip(form.description),
     muscle_group |-> strip(form.muscle_group),
     equipment |-> strip(form.equipment),
     difficulty |-> strip(form.difficulty),
     is_public |-> form.is_public = "on",
     owner_id |-> owner]

exercises_create(method, form) ==
    /\ Respond("exercises.create", NULL, CreateResult(method, form))
    /\ IF CreateResult(method, form) = "saved"
       THEN exercises' = Insert(exercises, NewId(exercises),
                                ExerciseRow(form, current_user))
       ELSE UNCHANGED exercises
    /\ UNCHANGED <<users, workouts, workout_exercises, attachments, files,
                   current_user, inflight>>

EditResult(id, method, form) ==
    IF ~is_authenticated THEN "login_redirect"
    ELSE IF ~role_required({"editor", "admin"}) THEN "forbidden_role"
    ELSE IF id \notin DOMAIN exercises THEN "not_found"
    ELSE IF ~ExerciseOwnerOrAdmin(id) THEN "forbidden_owner"
    ELSE IF method = "GET" THEN "form"
    ELSE FormResult(form)

exercises_edit(id, method, form) ==
    /\ Respond("exercises.edit", id, EditResult(id, method, form))
    /\ exercises' =
          IF EditResult(id, method, form) = "saved"
          THEN [exercises EXCEPT ![id] = ExerciseRow(form, exercises[id].owner_id)]
          ELSE exercises
    /\ UNCHANGED <<users, workouts, workout_exercises, attachments, files,
                   current_user, inflight>>

(* Exercise.workout_exercises / Exercise.attachments relationships *)
ExerciseWorkoutExercises(id) ==
    {w \in DOMAIN workout_exercises : workout_exercises[w].exercise_id = id}

(* mutant: the relationship to the attachments has no cascade *)
ExerciseAttachments_None(id) == {}

ExerciseAttachments(id) ==
    {a \in DOMAIN attachments : attachments[a].exercise_id = id}

(* mutant: the check for linked workout_exercises is left out *)
DeleteResult_NoReferenceCheck(id) ==
    IF ~is_authenticated THEN "login_redirect"
    ELSE IF ~role_required({"editor", "admin"}) THEN "forbidden_role"
    ELSE IF id \notin DOMAIN exercises THEN "not_found"
    ELSE IF ~ExerciseOwnerOrAdmin(id) THEN "forbidden_owner"
    ELSE "deleted"

DeleteResult(id) ==
    IF ~is_authenticated THEN "login_redirect"
    ELSE IF ~role_required({"editor", "admin"}) THEN "forbidden_role"
    ELSE IF id \notin DOMAIN exercises THEN "not_found"
    ELSE IF ~ExerciseOwnerOrAdmin(id) THEN "forbidden_owner"
    ELSE IF ExerciseWorkoutExercises(id) # {} THEN "conflict"
    ELSE "deleted"

(* db.session.delete(exercise): cascade='all, delete-orphan' removes the *)
(* rows of its workout_exercises and attachments; no file is touched     *)
exercises_delete(id) ==
    /\ Respond("exercises.delete", id, DeleteResult(id))
    /\ IF DeleteResult(id) = "deleted"
       THEN /\ exercises' = Delete(exercises, {id})
            /\ workout_exercises' =
                  Delete(workout_exercises, ExerciseWorkoutExercises(id))
            /\ attachments' = Delete(attachments, ExerciseAttachments(id))
       ELSE UNCHANGED <<exercises, workout_exercises, attachments>>
    /\ UNCHANGED <<users, workouts, files, current_user, inflight>>

-----------------------------------------------------------------------------
(* routes/workouts.py *)

(* datetime.strptime(s, '%Y-%m-%d').date() on the date strings the model *)
(* sends, as the number YYYYMMDD; a string outside the table is a        *)
(* ValueError                                                            *)
DateTable ==
    [s \in {"2026-10-01", "2026-10-15", "2026-11-02"} |->
        CASE s = "2026-10-01" -> 20261001
          [] s = "2026-10-15" -> 20261015
          [] s = "2026-11-02" -> 20261102]

strptime_ok(s) == s \in DOMAIN DateTable

strptime(s) == DateTable[s]

(* int(s) on the number strings the model sends; a string outside the    *)
(* table is a ValueError                                                 *)
IntTable ==
    [s \in {"1", "3", "4", "8", "10", "45", "50", "60", "80", "100"} |->
        CASE s = "1" -> 1 [] s = "3" -> 3 [] s = "4" -> 4 [] s = "8" -> 8
          [] s = "10" -> 10 [] s = "45" -> 45 [] s = "50" -> 50
          [] s = "60" -> 60 [] s = "80" -> 80 [] s = "100" -> 100]

int_ok(s) == s \in DOMAIN IntTable

int(s) == IntTable[s]

(* a Float column holds thousandths: 2.125 is 2125 *)
Milli == 1000

(* float(s) on the number strings the model sends, in thousandths; every *)
(* value is a multiple of 1/8 and so exact in binary floating point      *)
FloatTable ==
    [s \in DOMAIN IntTable \cup {"2.125"} |->
        IF s = "2.125" THEN 2125 ELSE Milli * IntTable[s]]

float_ok(s) == s \in DOMAIN FloatTable

float(s) == FloatTable[s]

(* a nullable column: {} is None, {v} is the value v *)
None == {}

Some(v) == {v}

(* `float(x) if x else None` *)
FloatOrNone(s) == IF s = "" THEN None ELSE Some(float(s))

(* `int(x) if x else None` *)
IntOrNone(s) == IF s = "" THEN None ELSE Some(int(s))

(* `int(x) if x else 1` *)
IntOrOne(s) == IF s = "" THEN 1 ELSE int(s)

(* mutant: the ownership test is left out *)
WorkoutOwnerOrAdmin_Anyone(id) == TRUE

WorkoutOwnerOrAdmin(id) ==
    workouts[id].owner_id = current_user \/ is_admin(current_user)

(* the decorator owner_or_admin_required, after login_required *)
owner_or_admin_required(id) ==
    IF ~is_authenticated THEN "login_redirect"
    ELSE IF id \notin DOMAIN workouts THEN "not_found"
    ELSE IF ~WorkoutOwnerOrAdmin(id) THEN "forbidden_owner"
    ELSE "pass"

(* the query of the list; the model keeps fewer than per_page = 10 rows, *)
(* so the first page holds them all                                      *)
ListQuery ==
    IF is_admin(current_user) THEN DOMAIN workouts
    ELSE {w \in DOMAIN workouts : workouts[w].owner_id = current_user}

workouts_list ==
    /\ response' = [op |-> "workouts.list", target |-> NULL,
                    result |-> IF is_authenticated THEN "page"
                               ELSE "login_redirect",
                    workouts |-> IF is_authenticated THEN ListQuery ELSE {}]
    /\ UNCHANGED <<tables, current_user, inflight>>

workouts_view(id) ==
    /\ Respond("workouts.view", id,
               IF owner_or_admin_required(id) = "pass" THEN "page"
               ELSE owner_or_admin_required(id))
    /\ UNCHANGED <<tables, current_user, inflight>>

WorkoutFormResult(form) ==
    IF form.date = "" \/ form.workout_type = "" THEN "invalid"
    ELSE IF ~strptime_ok(form.date) THEN "invalid"
    ELSE IF form.duration # "" /\ ~int_ok(form.duration) THEN "server_error"
    ELSE "saved"

NewResult(method, form) ==
    IF ~is_authenticated THEN "login_redirect"
    ELSE IF method = "GET" THEN "form"
    ELSE WorkoutFormResult(form)

WorkoutRow(form, owner) ==
    [date |-> strptime(form.date),
     workout_type |-> form.workout_type,
     duration |-> IntOrNone(form.duration),
     notes |-> form.notes,
     owner_id |-> owner]

workouts_new(method, form) ==
    /\ Respond("workouts.new", NULL, NewResult(method, form))
    /\ IF NewResult(method, form) = "saved"
       THEN workouts' = Insert(workouts, NewId(workouts),
                               WorkoutRow(form, current_user))
       ELSE UNCHANGED workouts
    /\ UNCHANGED <<users, exercises, workout_exercises, attachments, files,
                   current_user, inflight>>

WorkoutEditResult(id, method, form) ==
    IF owner_or_admin_required(id) # "pass" THEN owner_or_admin_required(id)
    ELSE IF method = "GET" THEN "form"
    ELSE WorkoutFormResult(form)

workouts_edit(id, method, form) ==
    /\ Respond("workouts.edit", id, WorkoutEditResult(id, method, form))
    /\ workouts' =
          IF WorkoutEditResult(id, method, form) = "saved"
          THEN [workouts EXCEPT ![id] = WorkoutRow(form, workouts[id].owner_id)]
          ELSE workouts
    /\ UNCHANGED <<users, exercises, workout_exercises, attachments, files,
                   current_user, inflight>>

(* Workout.workout_exercises relationship *)
WorkoutWorkoutExercises(id) ==
    {w \in DOMAIN workout_exercises : workout_exercises[w].workout_id = id}

WorkoutDeleteResult(id) ==
    IF owner_or_admin_required(id) # "pass" THEN owner_or_admin_required(id)
    ELSE "deleted"

(* db.session.delete(workout): cascade removes its workout_exercises *)
workouts_delete(id) ==
    /\ Respond("workouts.delete", id, WorkoutDeleteResult(id))
    /\ IF WorkoutDeleteResult(id) = "deleted"
       THEN /\ workouts' = Delete(workouts, {id})
            /\ workout_exercises' =
                  Delete(workout_exercises, WorkoutWorkoutExercises(id))
       ELSE UNCHANGED <<workouts, workout_exercises>>
    /\ UNCHANGED <<users, exercises, attachments, files, current_user, inflight>>

AddExerciseResult(id, form) ==
    IF owner_or_admin_required(id) # "pass" THEN owner_or_admin_required(id)
    ELSE IF form.exercise_id = NULL THEN "invalid"
    ELSE IF form.exercise_id \notin DOMAIN exercises THEN "not_found"
    ELSE IF ~ExerciseReadable(form.exercise_id) THEN "no_access"
    ELSE IF \/ form.sets # "" /\ ~int_ok(form.sets)
            \/ form.reps # "" /\ ~int_ok(form.reps)
            \/ form.weight # "" /\ ~float_ok(form.weight)
            \/ form.duration # "" /\ ~int_ok(form.duration)
            \/ form.distance # "" /\ ~float_ok(form.distance)
         THEN "server_error"
    ELSE "added"

(* db.func.max(WorkoutExercise.order) of the workout, `or 0` *)
max_order(id) ==
    Max({workout_exercises[w].order : w \in WorkoutWorkoutExercises(id)})

WorkoutExerciseRow(id, form) ==
    [workout_id |-> id,
     exercise_id |-> form.exercise_id,
     sets |-> IntOrOne(form.sets),
     reps |-> IntOrOne(form.reps),
     weight |-> FloatOrNone(form.weight),
     duration |-> IntOrNone(form.duration),
     distance |-> FloatOrNone(form.distance),
     notes |-> form.notes,
     order |-> max_order(id) + 1]

workouts_add_exercise(id, form) ==
    /\ Respond("workouts.add_exercise", id, AddExerciseResult(id, form))
    /\ IF AddExerciseResult(id, form) = "added"
       THEN workout_exercises' =
               Insert(workout_exercises, NewId(workout_exercises),
                      WorkoutExerciseRow(id, form))
       ELSE UNCHANGED workout_exercises
    /\ UNCHANGED <<users, exercises, workouts, attachments, files,
                   current_user, inflight>>

(* add_exercise in two steps, for requests served at the same time: the  *)
(* checks and the max(order) query of line 266, and later the insert and *)
(* the commit of lines 270-282. inflight holds, per worker, what the     *)
(* request has in hand between the two.                                  *)
add_exercise_query(p, id, form) ==
    /\ p \notin DOMAIN inflight
    /\ IF AddExerciseResult(id, form) = "added"
       THEN /\ inflight' = Insert(inflight, p,
                    [workout_id |-> id, form |-> form,
                     max_order |-> max_order(id)])
            /\ UNCHANGED response
       ELSE /\ Respond("workouts.add_exercise", id, AddExerciseResult(id, form))
            /\ UNCHANGED inflight
    /\ UNCHANGED <<tables, current_user>>

add_exercise_commit(p) ==
    /\ p \in DOMAIN inflight
    /\ workout_exercises' =
          Insert(workout_exercises, NewId(workout_exercises),
                 [WorkoutExerciseRow(inflight[p].workout_id, inflight[p].form)
                     EXCEPT !.order = inflight[p].max_order + 1])
    /\ Respond("workouts.add_exercise", inflight[p].workout_id, "added")
    /\ inflight' = Delete(inflight, {p})
    /\ UNCHANGED <<users, exercises, workouts, attachments, files, current_user>>

DeleteExerciseResult(id, ex_id) ==
    IF owner_or_admin_required(id) # "pass" THEN owner_or_admin_required(id)
    ELSE IF ex_id \notin DOMAIN workout_exercises THEN "not_found"
    ELSE IF workout_exercises[ex_id].workout_id # id THEN "not_in_workout"
    ELSE "removed"

workouts_delete_exercise(id, ex_id) ==
    /\ Respond("workouts.delete_exercise", <<id, ex_id>>,
               DeleteExerciseResult(id, ex_id))
    /\ workout_exercises' =
          IF DeleteExerciseResult(id, ex_id) = "removed"
          THEN Delete(workout_exercises, {ex_id})
          ELSE workout_exercises
    /\ UNCHANGED <<users, exercises, workouts, attachments, files,
                   current_user, inflight>>

-----------------------------------------------------------------------------
(* routes/files.py *)

(* A filename is the sequence of its characters. *)
(* str.lower() on the letters the model's filenames use *)
lower(c) ==
    CASE c = "P" -> "p" [] c = "N" -> "n" [] c = "G" -> "g" [] c = "T" -> "t"
      [] c = "X" -> "x" [] c = "E" -> "e"
      [] OTHER -> c

Lower(name) == [i \in 1 .. Len(name) |-> lower(name[i])]

Dots(filename) == {i \in 1 .. Len(filename) : filename[i] = "."}

(* filename.rsplit('.', 1)[1]: what follows the last dot *)
rsplit_ext(filename) ==
    SubSeq(filename, Max(Dots(filename)) + 1, Len(filename))

(* mutant: the extension is compared without .lower() *)
allowed_file_CaseSensitive(filename) ==
    /\ Dots(filename) # {}
    /\ rsplit_ext(filename) \in ALLOWED_EXTENSIONS

allowed_file(filename) ==
    /\ Dots(filename) # {}
    /\ Lower(rsplit_ext(filename)) \in ALLOWED_EXTENSIONS

get_total_size_for_exercise(exercise_id) ==
    SumOver([a \in ExerciseAttachments(exercise_id) |-> attachments[a].file_size],
            ExerciseAttachments(exercise_id))

(* Flask parses the form on the first use of request.files and answers   *)
(* 413 when the request body is longer than MAX_CONTENT_LENGTH           *)
RequestEntityTooLarge(content_length) == content_length > MAX_CONTENT_LENGTH

UploadAccess(exercise_id) ==
    \/ exercises[exercise_id].is_public
    \/ exercises[exercise_id].owner_id = current_user
    \/ is_admin(current_user)

(* mutant: the cumulative-size check is left out *)
UploadChecks_NoQuota(exercise_id, upload, current_total_size) ==
    IF ~is_authenticated THEN "login_redirect"
    ELSE IF RequestEntityTooLarge(upload.content_length) THEN "request_too_large"
    ELSE IF ~upload.has_file THEN "no_file"
    ELSE IF upload.filename = <<>> THEN "empty_filename"
    ELSE IF exercise_id \notin DOMAIN exercises THEN "not_found"
    ELSE IF ~UploadAccess(exercise_id) THEN "no_access"
    ELSE IF ~allowed_file(upload.filename) THEN "unsupported_type"
    ELSE IF upload.size > MAX_FILE_SIZE THEN "file_too_large"
    ELSE "uploaded"

(* the checks of upload_file up to the quota check, against the total    *)
(* that get_total_size_for_exercise returned                             *)
UploadChecks(exercise_id, upload, current_total_size) ==
    IF ~is_authenticated THEN "login_redirect"
    ELSE IF RequestEntityTooLarge(upload.content_length) THEN "request_too_large"
    ELSE IF ~upload.has_file THEN "no_file"
    ELSE IF upload.filename = <<>> THEN "empty_filename"
    ELSE IF exercise_id \notin DOMAIN exercises THEN "not_found"
    ELSE IF ~UploadAccess(exercise_id) THEN "no_access"
    ELSE IF ~allowed_file(upload.filename) THEN "unsupported_type"
    ELSE IF upload.size > MAX_FILE_SIZE THEN "file_too_large"
    ELSE IF current_total_size + upload.size > MAX_TOTAL_SIZE THEN "quota_exceeded"
    ELSE "uploaded"

(* mutant: the total of the exercise is taken as 0 *)
UploadResult_TotalZero(exercise_id, upload) ==
    UploadChecks(exercise_id, upload, 0)

UploadResult(exercise_id, upload) ==
    UploadChecks(exercise_id, upload, get_total_size_for_exercise(exercise_id))

(* generate_unique_filename: a name no file and no row has *)
UsedPaths == files \cup {attachments[a].file_path : a \in DOMAIN attachments}

generate_unique_filename ==
    CHOOSE p \in 1 .. Cardinality(UsedPaths) + 1 : p \notin UsedPaths

AttachmentRow(exercise_id, upload, owner) ==
    [filename |-> generate_unique_filename,
     original_filename |-> upload.filename,
     file_path |-> generate_unique_filename,
     file_size |-> upload.size,
     mime_type |-> upload.content_type,
     exercise_id |-> exercise_id,
     owner_id |-> owner]

RespondUpload(exercise_id, upload, result) ==
    response' = [op |-> "files.upload_file", target |-> exercise_id,
                 result |-> result, upload |-> upload]

(* file.save(file_path), then the row *)
StoreUpload(exercise_id, upload, owner) ==
    /\ files' = files \cup {generate_unique_filename}
    /\ attachments' = Insert(attachments, NewId(attachments),
                             AttachmentRow(exercise_id, upload, owner))

upload_file(exercise_id, upload) ==
    /\ RespondUpload(exercise_id, upload, UploadResult(exercise_id, upload))
    /\ IF UploadResult(exercise_id, upload) = "uploaded"
       THEN StoreUpload(exercise_id, upload, current_user)
       ELSE UNCHANGED <<attachments, files>>
    /\ UNCHANGED <<users, exercises, workouts, workout_exercises,
                   current_user, inflight>>

(* upload_file in two steps, for requests served at the same time: the   *)
(* checks with the total read at line 209, and later the save and the    *)
(* commit. inflight holds, per worker, what the request has in hand      *)
(* between the two.                                                      *)
upload_check(p, exercise_id, upload) ==
    /\ p \notin DOMAIN inflight
    /\ IF UploadResult(exercise_id, upload) = "uploaded"
       THEN /\ inflight' = Insert(inflight, p,
                    [exercise_id |-> exercise_id, upload |-> upload,
                     current_total_size |-> get_total_size_for_exercise(exercise_id),
                     owner_id |-> current_user])
            /\ UNCHANGED response
       ELSE /\ RespondUpload(exercise_id, upload, UploadResult(exercise_id, upload))
            /\ UNCHANGED inflight
    /\ UNCHANGED <<tables, current_user>>

upload_commit(p) ==
    /\ p \in DOMAIN inflight
    /\ StoreUpload(inflight[p].exercise_id, inflight[p].upload, inflight[p].owner_id)
    /\ RespondUpload(inflight[p].exercise_id, inflight[p].upload, "uploaded")
    /\ inflight' = Delete(inflight, {p})
    /\ UNCHANGED <<users, exercises, workouts, workout_exercises, current_user>>

(* the upload folder is an ordinary directory: a stored file can be      *)
(* removed by something other than the application, which is the case    *)
(* os.path.exists guards against; no request is answered by it          *)
file_removed_out_of_band(path) ==
    /\ path \in files
    /\ files' = files \ {path}
    /\ response' = [op |-> "none", target |-> NULL, result |-> "none"]
    /\ UNCHANGED <<users, exercises, workouts, workout_exercises, attachments,
                   current_user, inflight>>

(* mutant: the row is kept when os.remove raised *)
DeleteFileResult_KeepOnError(attachment_id, remove_raises) ==
    IF ~is_authenticated THEN "login_redirect"
    ELSE IF attachment_id \notin DOMAIN attachments THEN "not_found"
    ELSE IF /\ attachments[attachment_id].owner_id # current_user
            /\ ~is_admin(current_user)
         THEN "forbidden_owner"
    ELSE IF attachments[attachment_id].file_path \in files /\ remove_raises
         THEN "storage_error"
    ELSE "deleted"

DeleteFileResult(attachment_id, remove_raises) ==
    IF ~is_authenticated THEN "login_redirect"
    ELSE IF attachment_id \notin DOMAIN attachments THEN "not_found"
    ELSE IF /\ attachments[attachment_id].owner_id # current_user
            /\ ~is_admin(current_user)
         THEN "forbidden_owner"
    ELSE IF attachments[attachment_id].file_path \in files /\ remove_raises
         THEN "deleted_with_warning"
    ELSE "deleted"

(* os.remove inside try/except: when it raises, the file stays and the   *)
(* row is deleted all the same                                           *)
delete_file(attachment_id, remove_raises) ==
    /\ Respond("files.delete_file", attachment_id,
               DeleteFileResult(attachment_id, remove_raises))
    /\ IF DeleteFileResult(attachment_id, remove_raises)
             \in {"deleted", "deleted_with_warning"}
       THEN /\ attachments' = Delete(attachments, {attachment_id})
            /\ files' = IF remove_raises THEN files
                        ELSE files \ {attachments[attachment_id].file_path}
       ELSE UNCHANGED <<attachments, files>>
    /\ UNCHANGED <<users, exercises, workouts, workout_exercises,
                   current_user, inflight>>

ExerciseReadResult(exercise_id, page) ==
    IF ~is_authenticated THEN "login_redirect"
    ELSE IF exercise_id \notin DOMAIN exercises THEN "not_found"
    ELSE IF ~ExerciseReadable(exercise_id) THEN "no_access"
    ELSE page

get_exercise_files(exercise_id) ==
    /\ Respond("files.get_exercise_files", exercise_id,
               ExerciseReadResult(exercise_id, "page"))
    /\ UNCHANGED <<tables, current_user, inflight>>

export_exercise(exercise_id) ==
    /\ Respond("files.export_exercise", exercise_id,
               ExerciseReadResult(exercise_id, "archive"))
    /\ UNCHANGED <<tables, current_user, inflight>>

(* a set of row ids as the list a query returns: by primary key *)
RECURSIVE ById(_)
ById(ids) ==
    IF ids = {} THEN <<>>
    ELSE Append(ById(ids \ {Max(ids)}), Max(ids))

(* mutant: the rows of a workout are loaded newest first *)
LoadWorkoutExercises_Reversed(id) ==
    [i \in 1..Cardinality(WorkoutWorkoutExercises(id)) |->
        ById(WorkoutWorkoutExercises(id))
            [Cardinality(WorkoutWorkoutExercises(id)) + 1 - i]]

(* workout.workout_exercises: the relationship has no order_by, the rows *)
(* come as the store reads them for one workout_id, by primary key       *)
LoadWorkoutExercises(id) == ById(WorkoutWorkoutExercises(id))

(* json.dumps of a number column and json.loads of what it wrote *)
json_dumps(col) ==
    IF col = None THEN [type |-> "null", text |-> 0]
    ELSE [type |-> "number", text |-> CHOOSE v \in col : TRUE]

json_loads(value) == IF value.type = "null" THEN None ELSE Some(value.text)

(* mutant: the manifest names only the attachments whose file exists *)
attachment_filenames_Present(exercise_id) ==
    LET atts == SelectSeq(ById(ExerciseAttachments(exercise_id)),
                          LAMBDA a : attachments[a].file_path \in files)
    IN  [i \in DOMAIN atts |-> attachments[atts[i]].original_filename]

(* [att.original_filename for att in attachments] *)
attachment_filenames(exercise_id) ==
    LET atts == ById(ExerciseAttachments(exercise_id))
    IN  [i \in DOMAIN atts |-> attachments[atts[i]].original_filename]

(* exercise_data of one WorkoutExercise, as written to workout.json *)
exercise_data(we) ==
    [exercise_id |-> workout_exercises[we].exercise_id,
     sets |-> json_dumps(Some(workout_exercises[we].sets)),
     reps |-> json_dumps(Some(workout_exercises[we].reps)),
     weight |-> json_dumps(workout_exercises[we].weight),
     duration |-> json_dumps(workout_exercises[we].duration),
     distance |-> json_dumps(workout_exercises[we].distance),
     order |-> json_dumps(Some(workout_exercises[we].order)),
     attachments |-> attachment_filenames(workout_exercises[we].exercise_id)]

(* workout_data['exercises'] *)
workout_data(workout_id) ==
    [i \in DOMAIN LoadWorkoutExercises(workout_id) |->
        exercise_data(LoadWorkoutExercises(workout_id)[i])]

(* the entries zip_file.write adds: the stored file of every attachment  *)
(* of the workout's exercises that exists, under                         *)
(* attachments/<exercise_id>_<original_filename>                         *)
archive_attachments(workout_id) ==
    {[exercise_id |-> attachments[a].exercise_id,
      original_filename |-> attachments[a].original_filename,
      file_path |-> attachments[a].file_path] :
        a \in {a \in DOMAIN attachments :
                 /\ \E we \in WorkoutWorkoutExercises(workout_id) :
                        workout_exercises[we].exercise_id
                            = attachments[a].exercise_id
                 /\ attachments[a].file_path \in files}}

ExportZipResult(workout_id) ==
    IF owner_or_admin_required(workout_id) = "pass" THEN "archive"
    ELSE owner_or_admin_required(workout_id)

export_zip(workout_id) ==
    /\ response' =
          [op |-> "files.export_zip", target |-> workout_id,
           result |-> ExportZipResult(workout_id),
           manifest |-> IF ExportZipResult(workout_id) = "archive"
                        THEN workout_data(workout_id) ELSE <<>>,
           attachments |-> IF ExportZipResult(workout_id) = "archive"
                           THEN archive_attachments(workout_id) ELSE {}]
    /\ UNCHANGED <<tables, current_user, inflight>>

-----------------------------------------------------------------------------
(* routes/reports.py: the volume and the records report *)

(* datetime.now().date() of the requests and the day thirty days before *)
Today == 20261102

ThirtyDaysAgo == 20261003

(* `if not date_from` takes the default, strptime parses the rest *)
date_from_obj(date_from) ==
    IF date_from = "" THEN ThirtyDaysAgo ELSE strptime(date_from)

date_to_obj(date_to) == IF date_to = "" THEN Today ELSE strptime(date_to)

(* mutant: a date that does not parse is replaced by its default *)
ParseRange_DefaultOnError(date_from, date_to) ==
    [ok |-> TRUE,
     from |-> IF date_from = "" \/ strptime_ok(date_from)
              THEN date_from_obj(date_from) ELSE ThirtyDaysAgo,
     to |-> IF date_to = "" \/ strptime_ok(date_to)
            THEN date_to_obj(date_to) ELSE Today]

(* the try block around both strptime calls: the range, or the ValueError *)
ParseRange(date_from, date_to) ==
    IF /\ date_from = "" \/ strptime_ok(date_from)
       /\ date_to = "" \/ strptime_ok(date_to)
    THEN [ok |-> TRUE, from |-> date_from_obj(date_from),
          to |-> date_to_obj(date_to)]
    ELSE [ok |-> FALSE, from |-> NULL, to |-> NULL]

ReportDatesResult(date_from, date_to, page) ==
    IF ~is_authenticated THEN "login_redirect"
    ELSE IF ~ParseRange(date_from, date_to).ok THEN "invalid_date"
    ELSE page

(* a report answer carries the rows handed to the template or the writer *)
RespondReport(op, target, result, report) ==
    response' = [op |-> op, target |-> target, result |-> result,
                 report |-> report]

(* `x if x else 0` on a nullable number *)
OrZero(col) == IF col = None THEN 0 ELSE CHOOSE v \in col : TRUE

(* round(x, 2) of a float that is a multiple of 1/8: to hundredths, a tie *)
(* to the even hundredth; the result is again in thousandths             *)
Round2(x) ==
    LET q == x \div 10
        r == x % 10
    IN  IF r < 5 THEN 10 * q
        ELSE IF r > 5 THEN 10 * (q + 1)
        ELSE IF q % 2 = 0 THEN 10 * q
        ELSE 10 * (q + 1)

(* mutant: the last day of the range is left out *)
InRange_Exclusive(date, from, to) == date >= from /\ date < to

(* Workout.date >= date_from_obj, Workout.date <= date_to_obj *)
InRange(date, from, to) == date >= from /\ date <= to

(* mutant: the report reads every user's workouts *)
OwnedBy_Anyone(w, user) == TRUE

(* Workout.owner_id == current_user.id *)
OwnedBy(w, user) == workouts[w].owner_id = user

(* the workouts a report query returns when `user` is the current user *)
ReportWorkouts(user, from, to) ==
    {w \in DOMAIN workouts :
        /\ OwnedBy(w, user)
        /\ InRange(workouts[w].date, from, to)}

(* str < str on the workout types the model sends *)
StringOrder == <<"Cardio", "Strength">>

str_index(s) == CHOOSE i \in 1..Len(StringOrder) : StringOrder[i] = s

str_lt(a, b) == str_index(a) < str_index(b)

(* the four totals one workout adds to the entry of its type *)
WorkoutVolume(w) ==
    LET wes == WorkoutWorkoutExercises(w)
        volume == [x \in wes |->
                     workout_exercises[x].sets * workout_exercises[x].reps]
        load == [x \in wes |->
                   volume[x] * OrZero(workout_exercises[x].weight)]
    IN  [total_workouts |-> 1,
         total_duration |-> OrZero(workouts[w].duration),
         total_exercises |-> SumOver(volume, wes),
         total_weight |-> SumOver(load, wes)]

VolumeZero ==
    [total_workouts |-> 0, total_duration |-> 0, total_exercises |-> 0,
     total_weight |-> 0]

(* one pass of the loop body: workout w added to the entry of its type *)
AddWorkout(data, w) ==
    LET t == workouts[w].workout_type
        old == IF t \in DOMAIN data THEN data[t] ELSE VolumeZero
        add == WorkoutVolume(w)
    IN  Insert(data, t,
               [total_workouts |-> old.total_workouts + add.total_workouts,
                total_duration |-> old.total_duration + add.total_duration,
                total_exercises |-> old.total_exercises + add.total_exercises,
                total_weight |-> old.total_weight + add.total_weight])

(* the loop over the workouts that fills workout_types_data *)
RECURSIVE workout_types_data(_)
workout_types_data(ws) ==
    IF ws = {} THEN EmptyTable
    ELSE CHOOSE after \in
             {AddWorkout(data, Max(ws)) :
                 data \in {workout_types_data(ws \ {Max(ws)})}} : TRUE

(* report_data.sort(key=lambda x: x['workout_type']) *)
RECURSIVE SortByType(_)
SortByType(rows) ==
    IF rows = {} THEN <<>>
    ELSE LET first == CHOOSE r \in rows : \A q \in rows :
                          ~str_lt(q.workout_type, r.workout_type)
         IN  <<first>> \o SortByType(rows \ {first})

(* report_data of the workouts ws the query returned *)
VolumeRows(ws) ==
    LET data == workout_types_data(ws)
    IN  SortByType({[workout_type |-> t,
                     total_workouts |-> data[t].total_workouts,
                     total_duration |-> data[t].total_duration,
                     total_exercises |-> data[t].total_exercises,
                     total_weight |-> Round2(data[t].total_weight)] :
                    t \in DOMAIN data})

VolumeReport(user, from, to) == VolumeRows(ReportWorkouts(user, from, to))

(* the rows of the joined records query *)
RecordsQuery(user, from, to, exercise_id) ==
    {x \in DOMAIN workout_exercises :
        /\ workout_exercises[x].workout_id \in ReportWorkouts(user, from, to)
        /\ workout_exercises[x].exercise_id \in DOMAIN exercises
        /\ exercise_id # NULL => workout_exercises[x].exercise_id = exercise_id}

(* the orders in which a query without ORDER BY may return its rows *)
QueryOrders(rows) ==
    {s \in [1..Cardinality(rows) -> rows] :
        \A i, j \in DOMAIN s : s[i] = s[j] => i = j}

(* the dictionary appended to exercises_records[...]['records'] *)
RecordOf(x) ==
    [date |-> workouts[workout_exercises[x].workout_id].date,
     weight |-> OrZero(workout_exercises[x].weight),
     sets |-> workout_exercises[x].sets,
     reps |-> workout_exercises[x].reps]

(* the keys of exercises_records in insertion order *)
RECURSIVE RecordKeys(_)
RecordKeys(rows) ==
    IF rows = <<>> THEN <<>>
    ELSE LET before == RecordKeys(SubSeq(rows, 1, Len(rows) - 1))
             e == workout_exercises[rows[Len(rows)]].exercise_id
         IN  IF \E i \in DOMAIN before : before[i] = e THEN before
             ELSE Append(before, e)

(* exercises_records[e]['records'] *)
RecordsOfExercise(rows, e) ==
    LET mine == SelectSeq(rows, LAMBDA x : workout_exercises[x].exercise_id = e)
    IN  [i \in DOMAIN mine |-> RecordOf(mine[i])]

(* max(records, key=weight): the first record of the largest weight *)
max_weight_record(records) ==
    records[CHOOSE i \in DOMAIN records :
                /\ \A j \in DOMAIN records : records[j].weight <= records[i].weight
                /\ \A j \in 1..(i - 1) : records[j].weight < records[i].weight]

(* mutant: the reps are compared over every record of the exercise *)
records_with_max_weight_All(records) == records

records_with_max_weight(records) ==
    SelectSeq(records, LAMBDA r : r.weight = max_weight_record(records).weight)

(* max(records_with_max_weight, key=reps): the first of the most reps *)
max_reps_record(records) ==
    LET best == records_with_max_weight(records)
    IN  best[CHOOSE i \in DOMAIN best :
                 /\ \A j \in DOMAIN best : best[j].reps <= best[i].reps
                 /\ \A j \in 1..(i - 1) : best[j].reps < best[i].reps]

RecordRow(rows, e) ==
    LET records == RecordsOfExercise(rows, e)
    IN  [exercise_name |-> exercises[e].name,
         date |-> max_reps_record(records).date,
         max_weight |-> Round2(max_weight_record(records).weight),
         sets |-> max_reps_record(records).sets,
         reps |-> max_reps_record(records).reps]

(* report_data.sort(key=date, reverse=True): stable *)
RECURSIVE SortByDateDescending(_)
SortByDateDescending(report) ==
    IF report = <<>> THEN <<>>
    ELSE LET i == CHOOSE k \in DOMAIN report :
                      /\ \A j \in DOMAIN report : report[j].date <= report[k].date
                      /\ \A j \in 1..(k - 1) : report[j].date < report[k].date
         IN  <<report[i]>> \o
             SortByDateDescending(SubSeq(report, 1, i - 1) \o
                                  SubSeq(report, i + 1, Len(report)))

RecordsReport(rows) ==
    LET keys == RecordKeys(rows)
    IN  SortByDateDescending([i \in DOMAIN keys |-> RecordRow(rows, keys[i])])

reports_index ==
    /\ Respond("reports.index", NULL,
               IF is_authenticated THEN "page" ELSE "login_redirect")
    /\ UNCHANGED <<tables, current_user, inflight>>

VolumeAnswer(op, date_from, date_to, page) ==
    /\ RespondReport(op, <<date_from, date_to>>,
                     ReportDatesResult(date_from, date_to, page),
                     IF ReportDatesResult(date_from, date_to, page) = page
                     THEN VolumeReport(current_user,
                                       ParseRange(date_from, date_to).from,
                                       ParseRange(date_from, date_to).to)
                     ELSE <<>>)
    /\ UNCHANGED <<tables, current_user, inflight>>

reports_volume(date_from, date_to) ==
    VolumeAnswer("reports.volume", date_from, date_to, "page")

(* an export answer carries, besides the rows computed, the rows written  *)
(* by writer.writerow after the header                                    *)
RespondCsv(op, target, result, report, csv) ==
    response' = [op |-> op, target |-> target, result |-> result,
                 report |-> report, csv |-> csv]

(* mutant: the items are written from the last type to the first *)
RECURSIVE sorted_items_Descending(_)
sorted_items_Descending(data) ==
    IF DOMAIN data = {} THEN <<>>
    ELSE LET last == CHOOSE t \in DOMAIN data : \A q \in DOMAIN data :
                         ~str_lt(t, q)
         IN  <<last>> \o sorted_items_Descending(
                 [t \in DOMAIN data \ {last} |-> data[t]])

(* sorted(workout_types_data.items()): the keys are distinct, so the     *)
(* pairs come in ascending order of the workout type                     *)
RECURSIVE sorted_items(_)
sorted_items(data) ==
    IF DOMAIN data = {} THEN <<>>
    ELSE LET first == CHOOSE t \in DOMAIN data : \A q \in DOMAIN data :
                          ~str_lt(q, t)
         IN  <<first>> \o sorted_items([t \in DOMAIN data \ {first} |-> data[t]])

(* the rows volume_export writes for the workouts ws the query returned *)
VolumeCsv(ws) ==
    LET data == workout_types_data(ws)
        items == sorted_items(data)
    IN  [i \in DOMAIN items |->
            <<items[i],
              data[items[i]].total_workouts,
              data[items[i]].total_duration,
              data[items[i]].total_exercises,
              Round2(data[items[i]].total_weight)>>]

(* date.strftime('%d.%m.%Y'): day, month and year of a date *)
strftime_dmY(date) == <<date % 100, (date \div 100) % 100, date \div 10000>>

(* the rows records_export writes for its report_data *)
RecordsCsv(report_data) ==
    [i \in DOMAIN report_data |->
        <<strftime_dmY(report_data[i].date),
          report_data[i].exercise_name,
          report_data[i].max_weight,
          report_data[i].sets,
          report_data[i].reps>>]

reports_volume_export(date_from, date_to) ==
    /\ IF ReportDatesResult(date_from, date_to, "csv") = "csv"
       THEN RespondCsv("reports.volume_export", <<date_from, date_to>>, "csv",
                       VolumeReport(current_user,
                                    ParseRange(date_from, date_to).from,
                                    ParseRange(date_from, date_to).to),
                       VolumeCsv(ReportWorkouts(current_user,
                                     ParseRange(date_from, date_to).from,
                                     ParseRange(date_from, date_to).to)))
       ELSE RespondCsv("reports.volume_export", <<date_from, date_to>>,
                       ReportDatesResult(date_from, date_to, "csv"),
                       <<>>, <<>>)
    /\ UNCHANGED <<tables, current_user, inflight>>

RecordsAnswer(op, date_from, date_to, exercise_id, page) ==
    /\ IF ReportDatesResult(date_from, date_to, page) = page
       THEN \E rows \in QueryOrders(
                        RecordsQuery(current_user,
                                     ParseRange(date_from, date_to).from,
                                     ParseRange(date_from, date_to).to,
                                     exercise_id)) :
                RespondReport(op, <<date_from, date_to, exercise_id>>, page,
                              RecordsReport(rows))
       ELSE RespondReport(op, <<date_from, date_to, exercise_id>>,
                          ReportDatesResult(date_from, date_to, page), <<>>)
    /\ UNCHANGED <<tables, current_user, inflight>>

reports_records(date_from, date_to, exercise_id) ==
    RecordsAnswer("reports.records", date_from, date_to, exercise_id, "page")

reports_records_export(date_from, date_to, exercise_id) ==
    /\ IF ReportDatesResult(date_from, date_to, "csv") = "csv"
       THEN \E rows \in QueryOrders(
                        RecordsQuery(current_user,
                                     ParseRange(date_from, date_to).from,
                                     ParseRange(date_from, date_to).to,
                                     exercise_id)) :
                RespondCsv("reports.records_export",
                           <<date_from, date_to, exercise_id>>, "csv",
                           RecordsReport(rows), RecordsCsv(RecordsReport(rows)))
       ELSE RespondCsv("reports.records_export",
                       <<date_from, date_to, exercise_id>>,
                       ReportDatesResult(date_from, date_to, "csv"),
                       <<>>, <<>>)
    /\ UNCHANGED <<tables, current_user, inflight>>

-----------------------------------------------------------------------------
Init ==
    /\ users = SeedUsers
    /\ exercises = EmptyTable
    /\ workouts = EmptyTable
    /\ workout_exercises = EmptyTable
    /\ attachments = EmptyTable
    /\ files = {}
    /\ current_user = Anonymous
    /\ response = [op |-> "none", target |-> NULL, result |-> "none"]
    /\ inflight = <<>>

Methods == {"GET", "POST"}
Usernames == {"viewer", "editor", "admin", "ghost"}
Passwords == {"Password123", "wrong"}

(* ids a request can name: the rows there are and one there is not *)
Ids(table) == DOMAIN table \cup {NewId(table)}

(* rows of the tables plus the files no row points to any more *)
TotalRows ==
    Cardinality(DOMAIN exercises) + Cardinality(DOMAIN workouts)
    + Cardinality(DOMAIN workout_exercises) + Cardinality(UsedPaths)

(* a row may be added: the tables are not full and its id is in range *)
Room(table, max) == TotalRows < max /\ NewId(table) <= max

ExerciseForm(name, muscle_group, difficulty, is_public) ==
    [name |-> name, description |-> "", muscle_group |-> muscle_group,
     equipment |-> "", difficulty |-> difficulty, is_public |-> is_public]

ExerciseForms ==
    {ExerciseForm("Squat", "Legs", "beginner", "on"),
     ExerciseForm("Squat", "Legs", "beginner", ""),
     ExerciseForm(" ", "Legs", "beginner", "on")}

WorkoutForm(date, workout_type, duration) ==
    [date |-> date, workout_type |-> workout_type, duration |-> duration,
     notes |-> ""]

WorkoutForms ==
    {WorkoutForm("2026-11-02", "Strength", "60"),
     WorkoutForm("2026-11-02", "Cardio", ""),
     WorkoutForm("02.11.2026", "Strength", "60")}

WorkoutExerciseForm(exercise_id, sets, reps, weight) ==
    [exercise_id |-> exercise_id, sets |-> sets, reps |-> reps,
     weight |-> weight, duration |-> "", distance |-> "", notes |-> ""]

WorkoutExerciseForms ==
    {WorkoutExerciseForm(e, "3", "10", "50") : e \in {NULL} \cup Ids(exercises)}

(* the body of a multipart request: the file and its framing *)
Upload(filename, size) ==
    [has_file |-> TRUE, filename |-> filename, size |-> size,
     content_type |-> "application/octet-stream",
     content_length |-> size + 256]

PhotoPng == <<"p", ".", "p", "n", "g">>
MalwareExe == <<"m", ".", "e", "x", "e">>

Uploads == {Upload(PhotoPng, 1024), Upload(MalwareExe, 1024)}

ReportDates == {"", "01.10.2026"}

NoForm == [name |-> "", description |-> "", muscle_group |-> "",
           equipment |-> "", difficulty |-> "", is_public |-> "",
           date |-> "", workout_type |-> "", duration |-> "", notes |-> ""]

(* a GET carries no form; a POST carries one *)
Requests(forms) == {<<"GET", NoForm>>} \cup {<<"POST", f>> : f \in forms}

Logins ==
    {<<"GET", "", "">>}
    \cup {<<"POST", n, "Password123">> : n \in Usernames}
    \cup {<<"POST", "admin", "wrong">>}

RegisterForm(username, email, password, confirm_password) ==
    [username |-> username, email |-> email, password |-> password,
     confirm_password |-> confirm_password]

RegisterForms ==
    {RegisterForm("ghost", "ghost@test.com", "Password123", "Password123"),
     RegisterForm("editor", "ghost@test.com", "Password123", "Password123"),
     RegisterForm("ghost", "ghost@test.com", "wrong", "wrong")}

Session ==
    \/ index
    \/ dashboard
    \/ \E l \in Logins : login(l[1], l[2], l[3])
    \/ \E m \in Methods, f \in RegisterForms : register(m, f)
    \/ logout

(* the seeded users signing in and out *)
SignIn ==
    \/ \E n \in {"viewer", "editor", "admin"} : login("POST", n, "Password123")
    \/ logout

(* every handler, over at most max rows *)
Handlers(max) ==
    \/ Session
    \/ exercises_list
    \/ \E id \in Ids(exercises) : exercises_detail(id)
    \/ /\ Room(exercises, max)
       /\ \E r \in Requests(ExerciseForms) : exercises_create(r[1], r[2])
    \/ \E id \in Ids(exercises), r \in Requests(ExerciseForms) :
           exercises_edit(id, r[1], r[2])
    \/ \E id \in Ids(exercises) : exercises_delete(id)
    \/ workouts_list
    \/ \E id \in Ids(workouts) : workouts_view(id)
    \/ /\ Room(workouts, max)
       /\ \E r \in Requests(WorkoutForms) : workouts_new(r[1], r[2])
    \/ \E id \in Ids(workouts), r \in Requests(WorkoutForms) :
           workouts_edit(id, r[1], r[2])
    \/ \E id \in Ids(workouts) : workouts_delete(id)
    \/ /\ Room(workout_exercises, max)
       /\ \E id \in Ids(workouts), f \in WorkoutExerciseForms :
              workouts_add_exercise(id, f)
    \/ \E id \in Ids(workouts), x \in Ids(workout_exercises) :
           workouts_delete_exercise(id, x)
    \/ /\ Room(attachments, max)
       /\ \E e \in Ids(exercises), u \in Uploads : upload_file(e, u)
    \/ \E a \in Ids(attachments), r \in BOOLEAN : delete_file(a, r)
    \/ \E e \in Ids(exercises) : get_exercise_files(e)
    \/ \E e \in Ids(exercises) : export_exercise(e)
    \/ \E w \in Ids(workouts) : export_zip(w)
    \/ reports_index
    \/ \E d \in ReportDates : reports_volume(d, "")
    \/ \E d \in ReportDates : reports_volume_export(d, "")
    \/ \E d \in ReportDates : reports_records(d, "", NULL)
    \/ \E d \in ReportDates : reports_records_export(d, "", NULL)

(* Spec: every handler, over at most MaxRows rows *)
Next == Handlers(MaxRows)

Spec == Init /\ [][Next]_vars

(* SpecGuard: every handler, signed in or not, around a single row *)
MaxGuardRows == 1

NextGuard == Handlers(MaxGuardRows)

SpecGuard == Init /\ [][NextGuard]_vars

-----------------------------------------------------------------------------
(* SpecUpload: uploads and attachment deletions, one request at a time,  *)
(* on the exercises an editor creates                                    *)

MaxUploads == 9
MaxUploadExercises == 1

(* 12.5 MiB: eight of them are 100 MiB exactly *)
EighthOfQuota == MAX_TOTAL_SIZE \div 8

LargeFilePng == <<"l", ".", "p", "n", "g">>

(* large_file.png is the 21 MiB file of test_upload_too_large *)
QuotaUploads ==
    {Upload(PhotoPng, EighthOfQuota),
     Upload(LargeFilePng, 21 * MiB),
     Upload(MalwareExe, 1024)}

(* the newest row and a row there is not *)
LatestIds(table) == {Max(DOMAIN table), NewId(table)}

UploadRoom(max) ==
    /\ NewId(attachments) <= max
    /\ Cardinality(UsedPaths) < max

NextUpload ==
    \/ login("POST", "editor", "Password123")
    \/ logout
    \/ /\ NewId(exercises) <= MaxUploadExercises
       /\ exercises_create("POST", ExerciseForm("Squat", "Legs", "beginner", "on"))
    \/ /\ UploadRoom(MaxUploads)
       /\ \E e \in Ids(exercises), u \in QuotaUploads : upload_file(e, u)
    \/ \E a \in LatestIds(attachments), r \in BOOLEAN : delete_file(a, r)

SpecUpload == Init /\ [][NextUpload]_vars

-----------------------------------------------------------------------------
(* SpecFiles: uploads under many names to a few small attachments *)

MaxFileRows == 2

MalwareTxt == <<"m", ".", "t", "x", "t">>
PhotoUpperPng == <<"p", ".", "P", "N", "G">>
PngNoDot == <<"p", "n", "g">>
PhotoPngExe == <<"p", ".", "p", "n", "g", ".", "e", "x", "e">>
DotPng == <<".", "p", "n", "g">>
TrailingDot == <<"x", ".">>

Filenames ==
    {MalwareExe, MalwareTxt, PhotoUpperPng, PngNoDot, PhotoPngExe, DotPng,
     TrailingDot, <<>>}

(* a form without the 'file' part *)
NoFilePart ==
    [has_file |-> FALSE, filename |-> <<>>, size |-> 0,
     content_type |-> "", content_length |-> 256]

NamedUploads == {Upload(n, 1024) : n \in Filenames} \cup {NoFilePart}

NextFiles ==
    \/ \E n \in {"viewer", "editor"} : login("POST", n, "Password123")
    \/ logout
    \/ /\ NewId(exercises) <= MaxUploadExercises
       /\ \E p \in {"on", ""} :
              exercises_create("POST", ExerciseForm("Squat", "Legs", "beginner", p))
    \/ /\ UploadRoom(MaxFileRows)
       /\ \E e \in Ids(exercises), u \in NamedUploads : upload_file(e, u)
    \/ \E a \in LatestIds(attachments) : delete_file(a, FALSE)

SpecFiles == Init /\ [][NextFiles]_vars

-----------------------------------------------------------------------------
(* SpecRace: uploads to one exercise served by several workers at the   *)
(* same time                                                             *)

MaxWorkers == 2

Workers == 1 .. MaxWorkers

RaceRoom(max) ==
    /\ NewId(attachments) + Cardinality(DOMAIN inflight) <= max
    /\ Cardinality(UsedPaths) + Cardinality(DOMAIN inflight) < max

NextRace ==
    \/ login("POST", "editor", "Password123")
    \/ logout
    \/ /\ DOMAIN exercises = {}
       /\ exercises_create("POST", ExerciseForm("Squat", "Legs", "beginner", "on"))
    \/ /\ RaceRoom(MaxUploads)
       /\ \E p \in Workers, e \in DOMAIN exercises :
              upload_check(p, e, Upload(PhotoPng, EighthOfQuota))
    \/ \E p \in Workers : upload_commit(p)
    \/ /\ inflight = <<>>
       /\ \E a \in LatestIds(attachments) : delete_file(a, FALSE)

SpecRace == Init /\ [][NextRace]_vars

-----------------------------------------------------------------------------
(* SpecWorkouts: the workout handlers, over the workouts of an editor    *)
(* and an admin and one public exercise                                  *)

MaxWorkouts == 2
MaxWorkoutExercises == 1

NextWorkouts ==
    \/ \E n \in {"editor", "admin"} : login("POST", n, "Password123")
    \/ logout
    \/ /\ DOMAIN exercises = {}
       /\ exercises_create("POST", ExerciseForm("Squat", "Legs", "beginner", "on"))
    \/ \E id \in Ids(workouts) : workouts_view(id)
    \/ /\ NewId(workouts) <= MaxWorkouts
       /\ workouts_new("POST", WorkoutForm("2026-11-02", "Strength", "60"))
    \/ \E id \in Ids(workouts) :
           workouts_edit(id, "POST", WorkoutForm("2026-11-02", "Cardio", ""))
    \/ \E id \in Ids(workouts) : workouts_delete(id)
    \/ /\ NewId(workout_exercises) <= MaxWorkoutExercises
       /\ \E id \in Ids(workouts), e \in DOMAIN exercises :
              workouts_add_exercise(id, WorkoutExerciseForm(e, "3", "10", "50"))
    \/ \E id \in Ids(workouts), x \in Ids(workout_exercises) :
           workouts_delete_exercise(id, x)
    \/ \E w \in Ids(workouts) : export_zip(w)

SpecWorkouts == Init /\ [][NextWorkouts]_vars

-----------------------------------------------------------------------------
(* SpecDelete: attachments of several users on one public exercise,      *)
(* deleted while their files are present, lost or cannot be removed      *)

MaxDeleteRows == 2

NextDelete ==
    \/ SignIn
    \/ /\ DOMAIN exercises = {}
       /\ exercises_create("POST", ExerciseForm("Squat", "Legs", "beginner", "on"))
    \/ /\ UploadRoom(MaxDeleteRows)
       /\ \E e \in DOMAIN exercises : upload_file(e, Upload(PhotoPng, 1024))
    \/ \E a \in Ids(attachments), r \in BOOLEAN : delete_file(a, r)
    \/ \E p \in files : file_removed_out_of_band(p)

SpecDelete == Init /\ [][NextDelete]_vars

-----------------------------------------------------------------------------
(* SpecReports: an editor logs workouts of two types on                  *)
(* three days, adds performances to the latest one and asks for the      *)
(* volume report, or for any report with a malformed date                *)

MaxReportWorkouts == 2

MaxPerformances == 2

ReportWorkoutForms ==
    {WorkoutForm("2026-11-02", "Strength", "60"),
     WorkoutForm("2026-10-15", "Cardio", ""),
     WorkoutForm("2026-10-01", "Strength", "60")}

PerformanceForms(e) ==
    {WorkoutExerciseForm(e, "3", "10", "50"),
     WorkoutExerciseForm(e, "4", "8", "60"),
     WorkoutExerciseForm(e, "1", "1", "2.125"),
     WorkoutExerciseForm(e, "", "", "")}

(* date_from and date_to of the report requests *)
ReportRanges == {<<"", "">>, <<"2026-10-15", "2026-10-15">>}

MalformedRanges == {<<"01.10.2026", "">>, <<"", "2026-13-40">>}

NextReports ==
    \/ login("POST", "editor", "Password123")
    \/ /\ DOMAIN exercises = {}
       /\ exercises_create("POST", ExerciseForm("Squat", "Legs", "beginner", "on"))
    \/ /\ NewId(workouts) <= MaxReportWorkouts
       /\ \E f \in ReportWorkoutForms : workouts_new("POST", f)
    \/ /\ NewId(workout_exercises) <= MaxPerformances
       /\ \E e \in DOMAIN exercises : \E f \in PerformanceForms(e) :
              workouts_add_exercise(Max(DOMAIN workouts), f)
    \/ \E r \in ReportRanges \cup MalformedRanges : reports_volume(r[1], r[2])
    \/ \E r \in {<<"", "">>} \cup MalformedRanges :
           reports_volume_export(r[1], r[2])
    \/ reports_records("01.10.2026", "", NULL)
    \/ reports_records_export("", "2026-13-40", NULL)

SpecReports == Init /\ [][NextReports]_vars

-----------------------------------------------------------------------------
(* SpecRecords: one user sets up a barbell and a bodyweight exercise,     *)
(* logs one workout a day on two days, performs the exercises in the     *)
(* latest one and asks for the records report                            *)

RecordExerciseForms ==
    {ExerciseForm("Squat", "Legs", "beginner", "on"),
     ExerciseForm("Plank", "Core", "beginner", "on")}

RecordWorkoutForms ==
    {WorkoutForm("2026-11-02", "Strength", ""),
     WorkoutForm("2026-10-01", "Strength", "")}

(* squats are done with a barbell, planks with a light plate or none *)
RecordForms(e) ==
    IF exercises[e].name = "Squat"
    THEN {WorkoutExerciseForm(e, "3", "10", "50"),
          WorkoutExerciseForm(e, "4", "8", "50"),
          WorkoutExerciseForm(e, "4", "8", "60")}
    ELSE {WorkoutExerciseForm(e, "1", "1", "2.125"),
          WorkoutExerciseForm(e, "", "", "")}

RecordRanges == {<<"", "">>, <<"2026-10-01", "2026-11-02">>}

NextRecords ==
    \/ login("POST", "editor", "Password123")
    \/ \E f \in RecordExerciseForms :
          /\ \A e \in DOMAIN exercises : exercises[e].name # f.name
          /\ DOMAIN workouts = {}
          /\ exercises_create("POST", f)
    \/ \E f \in RecordWorkoutForms :
          /\ \A w \in DOMAIN workouts : workouts[w].date # strptime(f.date)
          /\ workouts_new("POST", f)
    \/ /\ NewId(workout_exercises) <= MaxPerformances
       /\ \E e \in DOMAIN exercises : \E f \in RecordForms(e) :
              workouts_add_exercise(Max(DOMAIN workouts), f)
    \/ \E r \in RecordRanges, e \in {NULL, 1} : reports_records(r[1], r[2], e)
    \/ reports_records_export("", "", NULL)

SpecRecords == Init /\ [][NextRecords]_vars

-----------------------------------------------------------------------------
(* SpecScope: an editor and an admin log, change and delete workouts,    *)
(* the admin also the editor's, and each asks for the list and reports   *)

ScopeForms(e) ==
    {WorkoutExerciseForm(e, "3", "10", "50"),
     WorkoutExerciseForm(e, "4", "8", "60")}

NextScope ==
    \/ \E n \in {"editor", "admin"} : login("POST", n, "Password123")
    \/ logout
    \/ /\ DOMAIN exercises = {}
       /\ exercises_create("POST", ExerciseForm("Squat", "Legs", "beginner", "on"))
    \/ /\ NewId(workouts) <= MaxReportWorkouts
       /\ workouts_new("POST", WorkoutForm("2026-11-02", "Strength", "60"))
    \/ /\ NewId(workout_exercises) <= MaxPerformances
       /\ \E e \in DOMAIN exercises : \E f \in ScopeForms(e) :
              workouts_add_exercise(Max(DOMAIN workouts), f)
    \/ /\ DOMAIN workouts # {}
       /\ workouts_delete(Max(DOMAIN workouts))
    \/ workouts_list
    \/ reports_volume("", "")
    \/ reports_volume_export("", "")
    \/ reports_records("", "", NULL)
    \/ reports_records_export("", "", NULL)

SpecScope == Init /\ [][NextScope]_vars

-----------------------------------------------------------------------------
(* SpecExport: an editor builds one workout from one exercise with       *)
(* attached photos, some of which are lost from the upload folder, and   *)
(* exports the workout                                                    *)

ExportForms(e) ==
    {WorkoutExerciseForm(e, "3", "10", "50"),
     WorkoutExerciseForm(e, "1", "1", "2.125"),
     WorkoutExerciseForm(e, "", "", "")}

NextExport ==
    \/ login("POST", "editor", "Password123")
    \/ /\ DOMAIN exercises = {}
       /\ exercises_create("POST", ExerciseForm("Squat", "Legs", "beginner", "on"))
    \/ /\ UploadRoom(MaxDeleteRows)
       /\ \E e \in DOMAIN exercises, n \in {PhotoPng, PhotoUpperPng} :
              upload_file(e, Upload(n, 1024))
    \/ \E p \in files : file_removed_out_of_band(p)
    \/ /\ DOMAIN workouts = {}
       /\ workouts_new("POST", WorkoutForm("2026-11-02", "Strength", "60"))
    \/ /\ NewId(workout_exercises) <= MaxPerformances
       /\ \E e \in DOMAIN exercises : \E f \in ExportForms(e) :
              workouts_add_exercise(Max(DOMAIN workouts), f)
    \/ \E w \in DOMAIN workouts, x \in DOMAIN workout_exercises :
           workouts_delete_exercise(w, x)
    \/ \E w \in DOMAIN workouts : export_zip(w)

SpecExport == Init /\ [][NextExport]_vars

-----------------------------------------------------------------------------
(* SpecValidation: an editor sends forms with a field missing, a date or *)
(* a number that does not parse, or the id of a row that does not exist  *)

ValidationWorkoutForms ==
    {WorkoutForm("2026-11-02", "Strength", "60"),
     WorkoutForm("", "Strength", "60"),
     WorkoutForm("02.11.2026", "Strength", "60"),
     WorkoutForm("2026-11-02", "Strength", "an hour")}

ValidationForms(e) ==
    {WorkoutExerciseForm(e, "3", "10", "50"),
     WorkoutExerciseForm(e, "three", "10", "50"),
     WorkoutExerciseForm(e, "3", "10", "heavy")}

NextValidation ==
    \/ login("POST", "editor", "Password123")
    \/ /\ DOMAIN exercises = {}
       /\ \E f \in {ExerciseForm("Squat", "Legs", "beginner", "on"),
                    ExerciseForm("", "Legs", "beginner", "on")} :
              exercises_create("POST", f)
    \/ /\ NewId(workouts) <= MaxWorkouts
       /\ \E f \in ValidationWorkoutForms : workouts_new("POST", f)
    \/ \E id \in Ids(workouts), f \in ValidationWorkoutForms :
           workouts_edit(id, "POST", f)
    \/ /\ NewId(workout_exercises) <= MaxWorkoutExercises
       /\ \E id \in Ids(workouts), e \in {NULL} \cup Ids(exercises) :
              \E f \in ValidationForms(e) : workouts_add_exercise(id, f)
    \/ \E r \in MalformedRanges : reports_volume(r[1], r[2])
    \/ \E r \in MalformedRanges : reports_records(r[1], r[2], NULL)

SpecValidation == Init /\ [][NextValidation]_vars

-----------------------------------------------------------------------------
(* SpecExercises: the exercise handlers, and the workout handlers that   *)
(* make an exercise referenced                                           *)

NextExercises ==
    \/ SignIn
    \/ /\ Room(exercises, MaxExerciseRows)
       /\ \E r \in Requests(ExerciseForms) : exercises_create(r[1], r[2])
    \/ \E id \in Ids(exercises), r \in Requests(ExerciseForms) :
           exercises_edit(id, r[1], r[2])
    \/ \E id \in Ids(exercises) : exercises_delete(id)
    \/ /\ Room(workouts, MaxExerciseRows)
       /\ workouts_new("POST", WorkoutForm("2026-11-02", "Strength", "60"))
    \/ /\ Room(workout_exercises, MaxExerciseRows)
       /\ \E id \in DOMAIN workouts, e \in DOMAIN exercises :
              workouts_add_exercise(id, WorkoutExerciseForm(e, "3", "10", "50"))

SpecExercises == Init /\ [][NextExercises]_vars

-----------------------------------------------------------------------------
(* Claims *)

Role(u) == IF u = Anonymous THEN "anonymous" ELSE users[u].role

(* the actor passes the role and the ownership check on exercise id *)
MayMutateExercise(id) ==
    /\ Role(current_user) \in {"editor", "admin"}
    /\ id \in DOMAIN exercises
    /\ (exercises[id].owner_id = current_user \/ Role(current_user) = "admin")

Referenced(id) ==
    \E w \in DOMAIN workout_exercises : workout_exercises[w].exercise_id = id

(* C1: for an actor who passes the role and ownership checks, deleting an *)
(* exercise that no WorkoutExercise references removes it; deleting one   *)
(* that is referenced answers with the conflict error and leaves the      *)
(* exercises and the WorkoutExercises as they were.                       *)
C1_DeleteStep ==
    (response'.op = "exercises.delete" /\ MayMutateExercise(response'.target))
    => IF Referenced(response'.target)
       THEN /\ response'.result = "conflict"
            /\ exercises' = exercises
            /\ workout_exercises' = workout_exercises
       ELSE /\ response'.result = "deleted"
            /\ response'.target \notin DOMAIN exercises'

C1_DeleteExercise == [][C1_DeleteStep]_vars

C1_Witness ==
    /\ response.op = "exercises.delete"
    /\ response.result = "conflict"
    /\ MayMutateExercise(response.target)
    /\ Referenced(response.target)

(* the exercises a step created, changed or deleted *)
TouchedExercises ==
    {id \in DOMAIN exercises \cup DOMAIN exercises' :
        \/ id \notin DOMAIN exercises
        \/ id \notin DOMAIN exercises'
        \/ exercises'[id] # exercises[id]}

(* C6: the exercises change only by a create, edit or delete of an actor  *)
(* whose role is editor or admin; an exercise is edited or deleted only   *)
(* by its owner or an admin; every other request leaves the exercise set  *)
(* and every exercise's fields unchanged.                                 *)
C6_ExerciseStep ==
    exercises' # exercises
    => /\ response'.op \in {"exercises.create", "exercises.edit", "exercises.delete"}
       /\ Role(current_user) \in {"editor", "admin"}
       /\ \A id \in TouchedExercises :
             IF id \in DOMAIN exercises
             THEN /\ response'.op \in {"exercises.edit", "exercises.delete"}
                  /\ response'.target = id
                  /\ \/ exercises[id].owner_id = current_user
                     \/ Role(current_user) = "admin"
             ELSE response'.op = "exercises.create"

C6_ExerciseMutation == [][C6_ExerciseStep]_vars

C6_Witness ==
    /\ response.op = "exercises.delete"
    /\ response.result = "forbidden_owner"
    /\ Role(current_user) = "editor"
    /\ response.target \in DOMAIN exercises
    /\ exercises[response.target].owner_id # current_user

(* the last request was an upload of a file with an allowed extension to *)
(* an exercise there is, by a signed-in actor                            *)
UploadAnswered ==
    /\ response.op = "files.upload_file"
    /\ current_user # Anonymous
    /\ response.upload.has_file
    /\ response.target \in DOMAIN exercises

(* the exercise's total when the answered upload arrived *)
TotalBefore ==
    IF response.result = "uploaded"
    THEN get_total_size_for_exercise(response.target) - response.upload.size
    ELSE get_total_size_for_exercise(response.target)

(* C2: with uploads and deletions one at a time, an upload is rejected    *)
(* with the quota error whenever the exercise's total plus the new file   *)
(* exceeds 100 MiB, is not rejected on quota grounds when the sum is      *)
(* 100 MiB exactly, and no exercise's total ever exceeds 100 MiB.         *)
C2_SequentialQuota ==
    /\ \A e \in DOMAIN exercises :
           get_total_size_for_exercise(e) <= MAX_TOTAL_SIZE
    /\ (UploadAnswered /\ allowed_file(response.upload.filename))
       => /\ TotalBefore + response.upload.size > MAX_TOTAL_SIZE
                => response.result = "quota_exceeded"
          /\ TotalBefore + response.upload.size = MAX_TOTAL_SIZE
                => response.result # "quota_exceeded"

(* C5: every upload of a file larger than 20 MiB is rejected with the    *)
(* file-too-large error, whatever its extension.                         *)
C5_FileTooLarge ==
    (UploadAnswered /\ response.upload.size > MAX_FILE_SIZE)
    => response.result = "file_too_large"

(* the filename has a dot, and what follows its last dot is, letter case *)
(* aside, one of the listed extensions                                   *)
ExtensionListed(filename) ==
    \E i \in 1 .. Len(filename) :
        /\ filename[i] = "."
        /\ \A j \in i + 1 .. Len(filename) : filename[j] # "."
        /\ \E ext \in ALLOWED_EXTENSIONS :
              /\ Len(ext) = Len(filename) - i
              /\ \A k \in 1 .. Len(ext) : lower(filename[i + k]) = ext[k]

(* answers of upload_file given before the file type is looked at *)
BeforeTypeCheck ==
    {"login_redirect", "request_too_large", "no_file", "empty_filename",
     "not_found", "no_access"}

(* C4: an upload that reaches the type check passes it if and only if    *)
(* its filename has a dot and the text after the last dot, letter case   *)
(* aside, is png, jpg, jpeg, pdf, txt, csv or json; any other filename   *)
(* is rejected with the unsupported-type error and no attachment is      *)
(* created.                                                              *)
C4_TypeStep ==
    (response'.op = "files.upload_file" /\ response'.result \notin BeforeTypeCheck)
    => /\ response'.result # "unsupported_type"
             <=> ExtensionListed(response'.upload.filename)
       /\ response'.result = "unsupported_type"
             => attachments' = attachments /\ files' = files

C4_FileType == [][C4_TypeStep]_vars

C4_Witness ==
    /\ response.op = "files.upload_file"
    /\ response.result = "unsupported_type"
    /\ response.upload.filename = MalwareExe
    /\ \E a \in DOMAIN attachments :
           attachments[a].original_filename = MalwareTxt

(* the exercise's total after the step *)
TotalNext(exercise_id) ==
    SumOver([a \in DOMAIN attachments' |-> attachments'[a].file_size],
            {a \in DOMAIN attachments' : attachments'[a].exercise_id = exercise_id})

(* the requests a step commits *)
Committed == DOMAIN inflight \ DOMAIN inflight'

(* C3: the quota check and the write of upload_file are not atomic. An   *)
(* upload that commits passed the check against the total it read, and   *)
(* commits whatever the total has become; a commit takes the exercise    *)
(* above 100 MiB only when the total it read is stale, as when two       *)
(* uploads read the same total and both commit.                          *)
C3_CommitStep ==
    \A p \in Committed :
        /\ inflight[p].current_total_size + inflight[p].upload.size <= MAX_TOTAL_SIZE
        /\ TotalNext(inflight[p].exercise_id)
              = get_total_size_for_exercise(inflight[p].exercise_id)
                + inflight[p].upload.size
        /\ (/\ TotalNext(inflight[p].exercise_id) > MAX_TOTAL_SIZE
            /\ get_total_size_for_exercise(inflight[p].exercise_id) <= MAX_TOTAL_SIZE)
           => inflight[p].current_total_size
                 < get_total_size_for_exercise(inflight[p].exercise_id)

C3_QuotaRace == [][C3_CommitStep]_vars

C3_Witness ==
    /\ inflight = <<>>
    /\ response.op = "files.upload_file"
    /\ response.result = "uploaded"
    /\ get_total_size_for_exercise(response.target) > MAX_TOTAL_SIZE

WorkoutOps ==
    {"workouts.view", "workouts.edit", "workouts.delete", "files.export_zip",
     "workouts.add_exercise", "workouts.delete_exercise"}

(* the answers with which a workout request goes through *)
WorkoutGranted == {"page", "form", "saved", "deleted", "archive", "added", "removed"}

(* the workout a request names *)
NamedWorkout(r) ==
    IF r.op = "workouts.delete_exercise" THEN r.target[1] ELSE r.target

(* C7: viewing, editing, deleting or exporting a workout, and adding or  *)
(* removing one of its WorkoutExercises, go through only for the         *)
(* workout's owner or an admin; a WorkoutExercise is removed only if it  *)
(* belongs to the workout the request names; a denied request leaves     *)
(* the workouts and WorkoutExercises unchanged.                          *)
C7_WorkoutStep ==
    response'.op \in WorkoutOps
    => /\ response'.result \in WorkoutGranted
             => /\ NamedWorkout(response') \in DOMAIN workouts
                /\ \/ workouts[NamedWorkout(response')].owner_id = current_user
                   \/ Role(current_user) = "admin"
       /\ response'.result \notin WorkoutGranted
             => workouts' = workouts /\ workout_exercises' = workout_exercises
       /\ response'.op = "workouts.delete_exercise"
             => \A x \in DOMAIN workout_exercises \ DOMAIN workout_exercises' :
                    /\ x = response'.target[2]
                    /\ workout_exercises[x].workout_id = response'.target[1]

C7_WorkoutAccess == [][C7_WorkoutStep]_vars

C7_Witness ==
    /\ response.op = "workouts.delete_exercise"
    /\ response.result = "not_in_workout"
    /\ response.target[2] \in DOMAIN workout_exercises
    /\ workout_exercises[response.target[2]].workout_id # response.target[1]

(* C8: no request of a viewer creates, updates or deletes an Exercise,   *)
(* Workout, WorkoutExercise or Attachment.                               *)
C8_ViewerStep ==
    Role(current_user) = "viewer"
    => UNCHANGED <<exercises, workouts, workout_exercises, attachments>>

C8_ViewerReadsOnly == [][C8_ViewerStep]_vars

(* answers that refuse the actor for who they are *)
Refusals == {"no_access", "forbidden_owner", "forbidden_role"}

(* C9: an admin is authorized for every action on every exercise,        *)
(* workout and attachment, whoever owns it: no request of an admin is    *)
(* refused on grounds of role, ownership or access.                      *)
C9_AdminAuthorized ==
    Role(current_user) = "admin" => response.result \notin Refusals

(* requests that need no login *)
OpenOps == {"index", "login", "register"}

(* C10: while nobody is signed in, every request other than index,       *)
(* login and register is answered with the redirect to login and changes *)
(* nothing stored; a step signs a user in only if it is a login whose    *)
(* username is that user's and whose password matches the stored hash.   *)
C10_GuardStep ==
    /\ (current_user = Anonymous /\ response'.op \notin OpenOps)
       => /\ response'.result = "login_redirect"
          /\ tables' = tables
          /\ current_user' = Anonymous
    /\ (current_user = Anonymous /\ current_user' # Anonymous)
       => /\ response'.op = "login"
          /\ current_user' \in DOMAIN users
          /\ users[current_user'].username = response'.target[1]
          /\ users[current_user'].password_hash
                = generate_password_hash(response'.target[2])

C10_LoginGuard == [][C10_GuardStep]_vars

C10_Witness ==
    /\ current_user = Anonymous
    /\ response.op = "workouts.delete"
    /\ response.result = "login_redirect"
    /\ response.target \in DOMAIN workouts

ExerciseReadOps ==
    {"exercises.detail", "files.get_exercise_files", "files.export_exercise"}

C12_UploadStep ==
    (attachments' # attachments \/ files' # files)
       /\ response'.op = "files.upload_file"
    => /\ response'.target \in DOMAIN exercises
       /\ \/ exercises[response'.target].owner_id = current_user
          \/ Role(current_user) = "admin"

C12_UploadOwnerOrAdmin == [][C12_UploadStep]_vars

(* the actor may delete the attachment: owner of the row, or admin *)
MayDeleteFile(a) ==
    /\ current_user # Anonymous
    /\ a \in DOMAIN attachments
    /\ (attachments[a].owner_id = current_user \/ Role(current_user) = "admin")

(* C13: delete_file removes an attachment only for its owner or an       *)
(* admin; when authorized the row is gone afterwards whether the file    *)
(* was removed, was already missing, or could not be removed (then the   *)
(* answer carries a warning and the file stays); a denied request        *)
(* leaves the row and the file in place.                                 *)
C13_DeleteStep ==
    (response'.op = "files.delete_file" /\ response'.target \in DOMAIN attachments)
    => IF MayDeleteFile(response'.target)
       THEN /\ response'.target \notin DOMAIN attachments'
            /\ response'.result \in {"deleted", "deleted_with_warning"}
            /\ response'.result = "deleted"
                  => attachments[response'.target].file_path \notin files'
            /\ response'.result = "deleted_with_warning"
                  => attachments[response'.target].file_path \in files'
       ELSE /\ attachments' = attachments
            /\ files' = files
            /\ response'.result \in {"login_redirect", "forbidden_owner"}

C13_DeleteFile == [][C13_DeleteStep]_vars

C13_Witness ==
    /\ response.op = "files.delete_file"
    /\ response.result = "deleted_with_warning"
    /\ response.target \notin DOMAIN attachments
    /\ files # {}
    /\ attachments = EmptyTable

-----------------------------------------------------------------------------
(* the volume report against its reference aggregation *)

VolumeAnswered ==
    /\ response.op \in {"reports.volume", "reports.volume_export"}
    /\ response.result \in {"page", "csv"}

(* the actor's workouts dated within the range of the answered request *)
RangeWorkouts ==
    {w \in DOMAIN workouts :
        /\ workouts[w].owner_id = current_user
        /\ workouts[w].date >= date_from_obj(response.target[1])
        /\ workouts[w].date <= date_to_obj(response.target[2])}

TypeWorkouts(t) == {w \in RangeWorkouts : workouts[w].workout_type = t}

TypePerformances(t) ==
    {x \in DOMAIN workout_exercises :
        workout_exercises[x].workout_id \in TypeWorkouts(t)}

Weighted(S) == {x \in S : workout_exercises[x].weight # None}

ReferenceDuration(t) ==
    SumOver([w \in TypeWorkouts(t) |->
                IF workouts[w].duration = None THEN 0
                ELSE CHOOSE d \in workouts[w].duration : TRUE],
            TypeWorkouts(t))

ReferenceExercises(t) ==
    SumOver([x \in TypePerformances(t) |->
                workout_exercises[x].sets * workout_exercises[x].reps],
            TypePerformances(t))

ReferenceWeight(t) ==
    SumOver([x \in Weighted(TypePerformances(t)) |->
                workout_exercises[x].sets * workout_exercises[x].reps
                * (CHOOSE v \in workout_exercises[x].weight : TRUE)],
            Weighted(TypePerformances(t)))

(* one row per type among RangeWorkouts, the reference totals in it, the *)
(* weight total as Shown gives it, rows in ascending type order          *)
VolumeReportIs(Shown(_)) ==
    LET report == response.report
        types == {workouts[w].workout_type : w \in RangeWorkouts}
    IN  /\ Len(report) = Cardinality(types)
        /\ \A i \in DOMAIN report :
              LET t == report[i].workout_type
              IN  /\ t \in types
                  /\ report[i].total_workouts = Cardinality(TypeWorkouts(t))
                  /\ report[i].total_duration = ReferenceDuration(t)
                  /\ report[i].total_exercises = ReferenceExercises(t)
                  /\ report[i].total_weight = Shown(ReferenceWeight(t))
        /\ \A i, j \in DOMAIN report :
              i < j => str_lt(report[i].workout_type, report[j].workout_type)

(* C14, as stated: the volume report is the reference aggregation over   *)
(* the actor's workouts in [date_from, date_to]: one row per type, the   *)
(* counts and sums of that type, total_weight the sum of                 *)
(* sets*reps*weight, rows in ascending type order                        *)
C14_ExactWeight == VolumeAnswered => VolumeReportIs(LAMBDA x : x)

(* C14, amended: the same, with total_weight the sum of sets*reps*weight *)
(* rounded to two decimals                                               *)
C14_VolumeReport == VolumeAnswered => VolumeReportIs(Round2)

(* two Strength workouts of the actor, 3x10 at 50 and 4x8 at 60, reported *)
(* as 2 workouts, 62 repetitions and 3420 kg                              *)
C14_Witness ==
    /\ VolumeAnswered
    /\ \E i \in DOMAIN response.report :
          /\ response.report[i].workout_type = "Strength"
          /\ response.report[i].total_workouts = 2
          /\ response.report[i].total_exercises = 62
          /\ response.report[i].total_weight = 3420 * Milli

-----------------------------------------------------------------------------
(* the records report against the stored performances *)

RecordsAnswered ==
    /\ response.op \in {"reports.records", "reports.records_export"}
    /\ response.result \in {"page", "csv"}

(* the performances of exercise e in the actor's workouts of the range *)
Performances(e) ==
    {x \in DOMAIN workout_exercises :
        /\ workout_exercises[x].exercise_id = e
        /\ LET w == workouts[workout_exercises[x].workout_id]
           IN  /\ w.owner_id = current_user
               /\ w.date >= date_from_obj(response.target[1])
               /\ w.date <= date_to_obj(response.target[2])}

(* the exercises the answered request asks about *)
RecordExercises ==
    {e \in DOMAIN exercises :
        /\ Performances(e) # {}
        /\ response.target[3] # NULL => e = response.target[3]}

WeightOrZero(x) ==
    IF workout_exercises[x].weight = None THEN 0
    ELSE CHOOSE v \in workout_exercises[x].weight : TRUE

MaxWeight(e) == Max({WeightOrZero(x) : x \in Performances(e)})

AtMaxWeight(e) == {x \in Performances(e) : WeightOrZero(x) = MaxWeight(e)}

(* the row is the record of exercise e, its max_weight as Shown gives it *)
RecordRowIs(row, e, Shown(_)) ==
    /\ row.exercise_name = exercises[e].name
    /\ row.max_weight = Shown(MaxWeight(e))
    /\ row.reps = Max({workout_exercises[x].reps : x \in AtMaxWeight(e)})
    /\ \E x \in AtMaxWeight(e) :
          /\ row.date = workouts[workout_exercises[x].workout_id].date
          /\ row.sets = workout_exercises[x].sets
          /\ row.reps = workout_exercises[x].reps

(* one row for each exercise of RecordExercises, newest record first *)
RecordsReportIs(Shown(_)) ==
    LET report == response.report
    IN  /\ \E of \in [DOMAIN report -> RecordExercises] :
              /\ \A e \in RecordExercises : \E i \in DOMAIN report : of[i] = e
              /\ \A i, j \in DOMAIN report : of[i] = of[j] => i = j
              /\ \A i \in DOMAIN report : RecordRowIs(report[i], of[i], Shown)
        /\ \A i, j \in DOMAIN report :
              i < j => report[i].date >= report[j].date

(* C15, as stated: the records report has one row for each exercise      *)
(* performed in the actor's workouts of the range (and matching the      *)
(* filter); max_weight is the largest weight of its performances (null   *)
(* as 0), reps the most reps at that weight, date, sets and reps come    *)
(* from one stored performance; rows are ordered by date descending      *)
C15_ExactMaxWeight == RecordsAnswered => RecordsReportIs(LAMBDA x : x)

(* C15, amended: the same, with max_weight the largest weight rounded to *)
(* two decimals                                                          *)
C15_RecordsReport == RecordsAnswered => RecordsReportIs(Round2)

(* squats at 3x10@50 and 4x8@60 are reported as 60 kg, 4 sets of 8 *)
C15_Witness ==
    /\ RecordsAnswered
    /\ \E e \in DOMAIN exercises :
          /\ \E x, y \in Performances(e) :
                WeightOrZero(x) = 50 * Milli /\ workout_exercises[x].reps = 10
                /\ WeightOrZero(y) = 60 * Milli
          /\ \E i \in DOMAIN response.report :
                /\ response.report[i].max_weight = 60 * Milli
                /\ response.report[i].sets = 4
                /\ response.report[i].reps = 8

-----------------------------------------------------------------------------
(* whose workouts a report and the workout list read *)

OwnWorkouts(u) == {w \in DOMAIN workouts : workouts[w].owner_id = u}

OwnPerformances(u) ==
    {x \in DOMAIN workout_exercises :
        workout_exercises[x].workout_id \in OwnWorkouts(u)}

(* the workouts of user u and the performances in them *)
OwnRows(u) ==
    <<[w \in OwnWorkouts(u) |-> workouts[w]],
      [x \in OwnPerformances(u) |-> workout_exercises[x]]>>

(* the actor's performances of the answered request *)
RangePerformances ==
    {x \in OwnPerformances(current_user) :
        /\ workout_exercises[x].workout_id \in RangeWorkouts
        /\ response.target[3] # NULL =>
               workout_exercises[x].exercise_id = response.target[3]}

ListAnswered == response.op = "workouts.list" /\ response.result = "page"

(* C16: for every actor, an admin included, a volume or records report  *)
(* (page or CSV) is the report of the actor's own workouts and their    *)
(* performances alone, so no other user's row contributes to it or can  *)
(* change it; the workout list shows an admin every workout and anyone  *)
(* else their own                                                       *)
C16_ReportsSelfScoped ==
    /\ VolumeAnswered =>
          response.report = VolumeRows(RangeWorkouts \cap OwnWorkouts(current_user))
    /\ RecordsAnswered =>
          \E rows \in QueryOrders(RangePerformances) :
              response.report = RecordsReport(rows)
    /\ ListAnswered =>
          response.workouts = IF Role(current_user) = "admin"
                              THEN DOMAIN workouts
                              ELSE OwnWorkouts(current_user)

(* an admin is answered an empty volume report while the editor has a *)
(* workout in the range                                                *)
C16_Witness ==
    /\ response.op = "reports.volume"
    /\ response.result = "page"
    /\ Role(current_user) = "admin"
    /\ response.report = <<>>
    /\ \E w \in DOMAIN workouts :
          /\ workouts[w].owner_id # current_user
          /\ workouts[w].date >= ThirtyDaysAgo
          /\ workouts[w].date <= Today

-----------------------------------------------------------------------------
(* the workout export read back *)

ExportAnswered ==
    response.op = "files.export_zip" /\ response.result = "archive"

(* the manifest entry read back gives the stored values of row we *)
EntryIs(entry, we) ==
    /\ json_loads(entry.sets) = Some(workout_exercises[we].sets)
    /\ json_loads(entry.reps) = Some(workout_exercises[we].reps)
    /\ json_loads(entry.weight) = workout_exercises[we].weight
    /\ json_loads(entry.duration) = workout_exercises[we].duration
    /\ json_loads(entry.distance) = workout_exercises[we].distance
    /\ json_loads(entry.order) = Some(workout_exercises[we].order)

ExportedAttachments ==
    {a \in DOMAIN attachments :
        \E we \in WorkoutWorkoutExercises(response.target) :
            workout_exercises[we].exercise_id = attachments[a].exercise_id}

(* the name of attachment a is in every manifest entry of its exercise *)
InManifest(a) ==
    \A i \in DOMAIN response.manifest :
        response.manifest[i].exercise_id = attachments[a].exercise_id
            => \E k \in DOMAIN response.manifest[i].attachments :
                   response.manifest[i].attachments[k]
                       = attachments[a].original_filename

(* the stored file of attachment a is in the archive under *)
(* attachments/<exercise_id>_<original_filename>           *)
InArchive(a) ==
    [exercise_id |-> attachments[a].exercise_id,
     original_filename |-> attachments[a].original_filename,
     file_path |-> attachments[a].file_path] \in response.attachments

(* C18: in a workout export an attachment row whose file is absent is   *)
(* left out of the archive's attachments/ entries and still named in    *)
(* the manifest entry of its exercise; one whose file is present is in  *)
(* the manifest and in the archive under                                *)
(* attachments/<exercise_id>_<original_filename>                        *)
C18_MissingFileTolerated ==
    ExportAnswered =>
        \A a \in ExportedAttachments :
            /\ InManifest(a)
            /\ IF attachments[a].file_path \in files
               THEN InArchive(a)
               ELSE \A entry \in response.attachments :
                        entry.file_path # attachments[a].file_path

(* an export with one attachment whose file is lost and one whose file *)
(* is there                                                            *)
C18_Witness ==
    /\ ExportAnswered
    /\ \E a, b \in ExportedAttachments :
          /\ attachments[a].file_path \notin files
          /\ attachments[b].file_path \in files
          /\ InManifest(a) /\ ~InArchive(a)
          /\ InManifest(b) /\ InArchive(b)

-----------------------------------------------------------------------------
(* report requests with a malformed date *)

ReportOps ==
    {"reports.volume", "reports.volume_export", "reports.records",
     "reports.records_export"}

(* a date parameter that is given and is not a YYYY-MM-DD date *)
Malformed(s) == s # "" /\ s \notin {"2026-10-01", "2026-10-15", "2026-11-02"}

(* C19: a signed-in request for a volume or records report (page or CSV) *)
(* whose date_from or date_to is not a valid YYYY-MM-DD date is answered *)
(* with the invalid-date error and a redirect to the report form, with   *)
(* no report rows, and never with the report of the default range        *)
C19_InvalidDate ==
    (/\ response.op \in ReportOps
     /\ current_user # Anonymous
     /\ Malformed(response.target[1]) \/ Malformed(response.target[2]))
        => /\ response.result = "invalid_date"
           /\ response.report = <<>>

(* a CSV export asked with date_to 2026-13-40 by a user who has a workout *)
(* in the default range is refused                                        *)
C19_Witness ==
    /\ response.op = "reports.volume_export"
    /\ response.target = <<"", "2026-13-40">>
    /\ response.result = "invalid_date"
    /\ \E w \in DOMAIN workouts :
          /\ workouts[w].owner_id = current_user
          /\ workouts[w].date >= ThirtyDaysAgo
          /\ workouts[w].date <= Today

-----------------------------------------------------------------------------
(* what a request with an invalid input is answered *)



(* C20: every validation failure of a request (a missing required field, *)
(* a malformed date, a non-numeric duration, sets, reps, weight or       *)
(* distance, an unknown identifier) is answered with a message and a     *)
(* status or redirect; no handler lets it escape as an unhandled fault   *)
C20_ValidationRecovered == response.result # "server_error"

-----------------------------------------------------------------------------
(* SpecRegister: registrations, by visitors and by signed-in users, with *)
(* names and emails that are new, taken by a seeded user or taken by an  *)
(* earlier registration                                                  *)

RegistrationForms ==
    {RegisterForm("ghost", "ghost@test.com", "Password123", "Password123"),
     RegisterForm("ghost", "other@test.com", "Password123", "Password123"),
     RegisterForm("other", "ghost@test.com", "Password123", "Password123"),
     RegisterForm("other", "other@test.com", "Password123", "Password123"),
     RegisterForm("editor", "third@test.com", "Password123", "Password123"),
     RegisterForm("third", "editor@test.com", "Password123", "Password123"),
     RegisterForm("third", "third@test.com", "Password123", "Password124"),
     RegisterForm("third", "third@test.com", "wrong", "wrong")}

NextRegister ==
    \/ \E m \in Methods, f \in RegistrationForms : register(m, f)
    \/ \E n \in {"viewer", "ghost", "other"} : login("POST", n, "Password123")
    \/ logout

SpecRegister == Init /\ [][NextRegister]_vars

(* the users of DOMAIN users whose column has the value *)
UsersWith(Column(_), value) == {u \in DOMAIN users : Column(users[u]) = value}

UsernameOf(u) == u.username
EmailOf(u) == u.email

C21_Distinct ==
    \A u \in DOMAIN users :
        /\ UsersWith(UsernameOf, users[u].username) = {u}
        /\ UsersWith(EmailOf, users[u].email) = {u}

(* a registration request: one that names a taken username or email, or  *)
(* whose confirmation differs, leaves the users alone; any other leaves  *)
(* them alone or adds one user, of the form's name and email, a viewer   *)
C21_Step ==
    \A m \in Methods, f \in RegistrationForms :
        register(m, f) =>
            IF \/ UsersWith(UsernameOf, f.username) # {}
               \/ UsersWith(EmailOf, f.email) # {}
               \/ f.password # f.confirm_password
            THEN users' = users
            ELSE \/ users' = users
                 \/ /\ DOMAIN users' = DOMAIN users \cup {NewId(users)}
                    /\ \A u \in DOMAIN users : users'[u] = users[u]
                    /\ users'[NewId(users)].username = f.username
                    /\ users'[NewId(users)].email = f.email
                    /\ users'[NewId(users)].role = "viewer"

(* C21: after any sequence of registration attempts the usernames are    *)
(* pairwise distinct and the emails are pairwise distinct; a             *)
(* registration with a taken username or email, or with a confirmation   *)
(* that differs from the password, creates no user; a user a             *)
(* registration creates is a viewer                                      *)
C21_Registration == []C21_Distinct /\ [][C21_Step]_vars

(* two registered users, both viewers, and a registration just refused   *)
(* for the email of the first                                            *)
C21_Witness ==
    /\ response.op = "register"
    /\ response.result = "duplicate"
    /\ Cardinality(DOMAIN users) = 5
    /\ \A u \in DOMAIN users \ DOMAIN SeedUsers : users[u].role = "viewer"

-----------------------------------------------------------------------------
(* SpecDifficulty: exercises created and edited with the difficulties of *)
(* the form's list and with one that is not in it                        *)

MaxDifficultyRows == 2

Difficulties == {"beginner", "intermediate", "advanced"}

DifficultyForms ==
    {ExerciseForm("Squat", "Legs", d, "on") : d \in Difficulties \cup {"expert", " "}}

NextDifficulty ==
    \/ SignIn
    \/ /\ NewId(exercises) <= MaxDifficultyRows
       /\ \E r \in Requests(DifficultyForms) : exercises_create(r[1], r[2])
    \/ \E id \in Ids(exercises), r \in Requests(DifficultyForms) :
           exercises_edit(id, r[1], r[2])

SpecDifficulty == Init /\ [][NextDifficulty]_vars

(* C22: in every reachable state the difficulty of every exercise        *)
(* created or edited through the application is one of beginner,         *)
(* intermediate and advanced                                             *)
C22_DifficultyEnum ==
    \A e \in DOMAIN exercises : exercises[e].difficulty \in Difficulties

-----------------------------------------------------------------------------
(* SpecReject: uploads with each of the defects upload_file tests for,   *)
(* by the owner of an exercise and by a viewer, up to a full quota       *)

(* 15 MiB passes the request limit; seven of them pass the quota *)
FifteenMiB == 15 * MiB

RejectUploads ==
    {Upload(PhotoPng, FifteenMiB),
     Upload(LargeFilePng, 21 * MiB),
     Upload(MalwareExe, 1024),
     Upload(<<>>, 1024),
     NoFilePart}

NextReject ==
    \/ \E n \in {"viewer", "editor"} : login("POST", n, "Password123")
    \/ logout
    \/ /\ DOMAIN exercises = {}
       /\ \E p \in {"on", ""} :
              exercises_create("POST", ExerciseForm("Squat", "Legs", "beginner", p))
    \/ /\ UploadRoom(MaxUploads)
       /\ \E e \in Ids(exercises), u \in RejectUploads : upload_file(e, u)

SpecReject == Init /\ [][NextReject]_vars

(* the defects of an upload request by a signed-in user *)
NoFile(e, u) == ~u.has_file
EmptyFilename(e, u) == u.filename = <<>>
UnknownExercise(e, u) == e \notin DOMAIN exercises
AccessDenied(e, u) ==
    /\ e \in DOMAIN exercises
    /\ ~exercises[e].is_public
    /\ exercises[e].owner_id # current_user
    /\ Role(current_user) # "admin"
UnsupportedExtension(e, u) == ~allowed_file(u.filename)
FileTooLarge(e, u) == u.size > MAX_FILE_SIZE
QuotaExceeded(e, u) ==
    SumOver([a \in DOMAIN attachments |-> attachments[a].file_size],
            {a \in DOMAIN attachments : attachments[a].exercise_id = e})
        + u.size > MAX_TOTAL_SIZE

Defective(e, u) ==
    \/ NoFile(e, u)
    \/ EmptyFilename(e, u)
    \/ UnknownExercise(e, u)
    \/ AccessDenied(e, u)
    \/ UnsupportedExtension(e, u)
    \/ FileTooLarge(e, u)
    \/ QuotaExceeded(e, u)

(* C23: an upload rejected for any reason (no file, empty filename,      *)
(* unknown exercise, access denied, unsupported extension, file too      *)
(* large, quota exceeded) leaves the attachment records, their sizes and *)
(* the stored files as they were before the request                      *)
C23_Step ==
    \A e \in Ids(exercises), u \in RejectUploads :
        (upload_file(e, u) /\ (Defective(e, u) \/ response'.result # "uploaded"))
            => /\ response'.result # "uploaded"
               /\ attachments' = attachments
               /\ files' = files

C23_RejectedUploadFrame == [][C23_Step]_vars

(* an upload just refused for the quota, with the six stored uploads of  *)
(* the exercise and their six files in place                             *)
C23_Witness ==
    /\ response.op = "files.upload_file"
    /\ response.result = "quota_exceeded"
    /\ Cardinality(DOMAIN attachments) = 6
    /\ Cardinality(files) = 6

-----------------------------------------------------------------------------
(* SpecCsv: one user logs workouts of two types on three days, performs  *)
(* two exercises in the latest one and asks for each report as a page    *)
(* and as a CSV file                                                     *)

(* the workouts in the order they are logged *)
CsvWorkoutForms ==
    <<WorkoutForm("2026-11-02", "Strength", "60"),
      WorkoutForm("2026-10-15", "Cardio", ""),
      WorkoutForm("2026-10-01", "Cardio", "60")>>

CsvForms(e) ==
    IF exercises[e].name = "Squat"
    THEN {WorkoutExerciseForm(e, "3", "10", "50"),
          WorkoutExerciseForm(e, "4", "8", "60")}
    ELSE {WorkoutExerciseForm(e, "1", "1", "2.125")}

CsvRanges == {<<"", "">>, <<"2026-10-01", "2026-11-02">>}

NextCsv ==
    \/ login("POST", "editor", "Password123")
    \/ \E f \in RecordExerciseForms :
          /\ \A e \in DOMAIN exercises : exercises[e].name # f.name
          /\ DOMAIN workouts = {}
          /\ exercises_create("POST", f)
    \/ /\ NewId(workouts) <= MaxReportWorkouts
       /\ NewId(workouts) \in DOMAIN CsvWorkoutForms
       /\ workouts_new("POST", CsvWorkoutForms[NewId(workouts)])
    \/ /\ NewId(workout_exercises) <= MaxPerformances
       /\ \E e \in DOMAIN exercises : \E f \in CsvForms(e) :
              workouts_add_exercise(Max(DOMAIN workouts), f)
    \/ reports_volume("", "")
    \/ \E r \in CsvRanges : reports_volume_export(r[1], r[2])
    \/ reports_records("", "", NULL)
    \/ \E r \in CsvRanges : reports_records_export(r[1], r[2], NULL)

SpecCsv == Init /\ [][NextCsv]_vars

CsvAnswered(op) == response.op = op /\ response.result = "csv"

(* the range a report request asks for *)
AskedRange == ParseRange(response.target[1], response.target[2])

(* a CSV date and a date are the same day *)
SameDay(dmy, date) == dmy[3] * 10000 + dmy[2] * 100 + dmy[1] = date

(* a line of the volume export has the values of a row of the page *)
VolumeLineIs(line, row) ==
    /\ line[1] = row.workout_type
    /\ line[2] = row.total_workouts
    /\ line[3] = row.total_duration
    /\ line[4] = row.total_exercises
    /\ line[5] = row.total_weight

(* a line of the records export has the values of a row of the page *)
RecordLineIs(line, row) ==
    /\ SameDay(line[1], row.date)
    /\ line[2] = row.exercise_name
    /\ line[3] = row.max_weight
    /\ line[4] = row.sets
    /\ line[5] = row.reps

(* the lines are the rows of the page, one for one and in its order *)
SameRows(csv, page, LineIs(_, _)) ==
    /\ Len(csv) = Len(page)
    /\ \A i \in DOMAIN page : LineIs(csv[i], page[i])

-----------------------------------------------------------------------------
(* SpecRoles: a viewer, an editor and an admin around one exercise, one  *)
(* workout, one performance and one attachment, each asking for every    *)
(* operation on every one of them                                        *)

RoleExerciseForms ==
    {ExerciseForm("Squat", "Legs", "beginner", p) : p \in {"on", ""}}

RoleWorkoutForm == WorkoutForm("2026-11-02", "Strength", "60")

NextRoles ==
    \/ SignIn
    \/ exercises_list
    \/ \E id \in DOMAIN exercises : exercises_detail(id)
    \/ /\ DOMAIN exercises = {}
       /\ \E f \in RoleExerciseForms : exercises_create("POST", f)
    \/ \E id \in DOMAIN exercises, f \in RoleExerciseForms :
           exercises_edit(id, "POST", f)
    \/ \E id \in DOMAIN exercises : exercises_delete(id)
    \/ workouts_list
    \/ \E id \in DOMAIN workouts : workouts_view(id)
    \/ /\ DOMAIN workouts = {}
       /\ workouts_new("POST", RoleWorkoutForm)
    \/ \E id \in DOMAIN workouts : workouts_edit(id, "POST", RoleWorkoutForm)
    \/ \E id \in DOMAIN workouts : workouts_delete(id)
    \/ /\ DOMAIN workout_exercises = {}
       /\ \E id \in DOMAIN workouts, e \in DOMAIN exercises :
              workouts_add_exercise(id, WorkoutExerciseForm(e, "3", "10", "50"))
    \/ \E id \in DOMAIN workouts, x \in DOMAIN workout_exercises :
           workouts_delete_exercise(id, x)
    \/ /\ DOMAIN attachments = {}
       /\ files = {}
       /\ \E e \in DOMAIN exercises : upload_file(e, Upload(PhotoPng, 1024))
    \/ \E a \in DOMAIN attachments : delete_file(a, FALSE)
    \/ \E e \in DOMAIN exercises : get_exercise_files(e)
    \/ \E e \in DOMAIN exercises : export_exercise(e)
    \/ \E w \in DOMAIN workouts : export_zip(w)
    \/ reports_volume("", "")
    \/ reports_records("", "", NULL)

SpecRoles == Init /\ [][NextRoles]_vars

Roles == {"viewer", "editor", "admin"}

(* the operations on an exercise, on a workout and on an attachment *)
OnExercise ==
    {"exercises.detail", "exercises.edit", "exercises.delete",
     "files.upload_file", "files.get_exercise_files", "files.export_exercise"}
OnWorkout ==
    {"workouts.view", "workouts.edit", "workouts.delete",
     "workouts.add_exercise", "workouts.delete_exercise", "files.export_zip"}
OnAttachment == {"files.delete_file"}
OpenToAll ==
    {"exercises.list", "workouts.list", "workouts.new", "reports.volume",
     "reports.records"}
Operations ==
    OnExercise \cup OnWorkout \cup OnAttachment \cup OpenToAll
    \cup {"exercises.create"}

(* how an actor stands to the target of a request: whether the actor     *)
(* owns it and, for the exercise it is or uses, whether that exercise is *)
(* public and whether the actor owns it                                  *)
Relation(owns, public, owns_exercise) ==
    [owns |-> owns, public |-> public, owns_exercise |-> owns_exercise]

Relations ==
    {Relation(o, p, e) : o \in BOOLEAN, p \in BOOLEAN, e \in BOOLEAN}

(* what the guards let a role do to a target it stands in relation rel to *)
Permitted(op, role, rel) ==
    CASE op \in {"exercises.detail", "files.get_exercise_files",
                 "files.export_exercise"} ->
             rel.public \/ rel.owns
      [] op = "exercises.create" -> role \in {"editor", "admin"}
      [] op \in {"exercises.edit", "exercises.delete"} ->
             role \in {"editor", "admin"} /\ (rel.owns \/ role = "admin")
      [] op = "files.upload_file" -> rel.public \/ rel.owns \/ role = "admin"
      [] op = "workouts.add_exercise" ->
             /\ rel.owns \/ role = "admin"
             /\ rel.public \/ rel.owns_exercise
      [] op \in OnWorkout \cup OnAttachment -> rel.owns \/ role = "admin"
      [] OTHER -> TRUE

(* the id of the row a request is about *)
IdOf(op, target) ==
    IF op = "workouts.delete_exercise" THEN target[1] ELSE target

TableOf(op) ==
    IF op \in OnExercise THEN exercises
    ELSE IF op \in OnWorkout THEN workouts
    ELSE attachments

(* the relation of the actor to the target of the request answered in     *)
(* this step and to exercise e, read before the step                      *)
RelationTo(op, id, e) ==
    Relation(IF op \in OpenToAll \cup {"exercises.create"} THEN FALSE
             ELSE TableOf(op)[id].owner_id = current_user,
             IF op \in OnExercise THEN exercises[id].is_public
             ELSE IF e \in DOMAIN exercises THEN exercises[e].is_public
             ELSE FALSE,
             IF op \in OnExercise THEN exercises[id].owner_id = current_user
             ELSE IF e \in DOMAIN exercises THEN exercises[e].owner_id = current_user
             ELSE FALSE)

(* a signed-in actor is refused exactly the requests Permitted denies *)
C25_Step ==
    /\ \A id \in DOMAIN workouts, e \in DOMAIN exercises :
          (/\ current_user # Anonymous
           /\ workouts_add_exercise(id, WorkoutExerciseForm(e, "3", "10", "50")))
              => (response'.result \in Refusals
                     <=> ~Permitted("workouts.add_exercise", Role(current_user),
                                    RelationTo("workouts.add_exercise", id, e)))
    /\ (/\ current_user # Anonymous
        /\ response' # response
        /\ response'.op \in Operations \ {"workouts.add_exercise"})
           => (response'.result \in Refusals
                  <=> ~Permitted(response'.op, Role(current_user),
                                 RelationTo(response'.op,
                                            IdOf(response'.op, response'.target),
                                            NULL)))

C25_Monotone ==
    \A op \in Operations, rel \in Relations :
        /\ Permitted(op, "viewer", rel) => Permitted(op, "editor", rel)
        /\ Permitted(op, "editor", rel) => Permitted(op, "admin", rel)

(* C25: capabilities are monotone in the role order viewer < editor <    *)
(* admin: for every operation and every target, with the same ownership  *)
(* relation between actor and target, what is permitted to a viewer is   *)
(* permitted to an editor, and what is permitted to an editor is         *)
(* permitted to an admin                                                 *)
C25_RoleMonotone == []C25_Monotone /\ [][C25_Step]_vars

(* an admin has just saved an edit of the editor's exercise, which an    *)
(* editor who does not own it is refused                                 *)
C25_Witness ==
    /\ response.op = "exercises.edit"
    /\ response.result = "saved"
    /\ Role(current_user) = "admin"
    /\ exercises[response.target].owner_id # current_user
    /\ ~Permitted("exercises.edit", "editor", Relation(FALSE, TRUE, FALSE))

-----------------------------------------------------------------------------
(* SpecOrder: performances added to one workout by requests that several *)
(* workers serve at the same time, and removed again                     *)

MaxOrderRows == 3

NextOrder ==
    \/ login("POST", "editor", "Password123")
    \/ /\ DOMAIN exercises = {}
       /\ exercises_create("POST", ExerciseForm("Squat", "Legs", "beginner", "on"))
    \/ /\ DOMAIN workouts = {}
       /\ workouts_new("POST", WorkoutForm("2026-11-02", "Strength", "60"))
    \/ /\ NewId(workout_exercises) + Cardinality(DOMAIN inflight) <= MaxOrderRows
       /\ \E p \in Workers, id \in DOMAIN workouts, e \in Ids(exercises) :
              add_exercise_query(p, id, WorkoutExerciseForm(e, "3", "10", "50"))
    \/ \E p \in Workers : add_exercise_commit(p)
    \/ /\ inflight = <<>>
       /\ \E id \in DOMAIN workouts, x \in DOMAIN workout_exercises :
              workouts_delete_exercise(id, x)

SpecOrder == Init /\ [][NextOrder]_vars

(* C26: each add_exercise gives the new WorkoutExercise an order greater *)
(* than that of every WorkoutExercise already in the workout, so after   *)
(* any add_exercise and delete_exercise requests, two overlapping        *)
(* add_exercise requests on one workout included, the order values       *)
(* within one workout are pairwise distinct                              *)
C26_DistinctOrders ==
    \A a, b \in DOMAIN workout_exercises :
        (/\ a # b
         /\ workout_exercises[a].workout_id = workout_exercises[b].workout_id)
            => workout_exercises[a].order # workout_exercises[b].order

-----------------------------------------------------------------------------
(* SpecIntegrity: an editor creates, edits and deletes exercises,        *)
(* workouts, performances and attachments, one request at a time         *)

MaxIntegrityRows == 2

IntegrityRoom(table) == NewId(table) <= MaxIntegrityRows

NextIntegrity ==
    \/ login("POST", "editor", "Password123")
    \/ /\ IntegrityRoom(exercises)
       /\ exercises_create("POST", ExerciseForm("Squat", "Legs", "beginner", "on"))
    \/ \E id \in DOMAIN exercises :
           exercises_edit(id, "POST", ExerciseForm("Squat", "Legs", "advanced", "on"))
    \/ \E id \in DOMAIN exercises : exercises_delete(id)
    \/ /\ DOMAIN workouts = {}
       /\ workouts_new("POST", WorkoutForm("2026-11-02", "Strength", "60"))
    \/ \E id \in DOMAIN workouts :
           workouts_edit(id, "POST", WorkoutForm("2026-11-02", "Cardio", ""))
    \/ \E id \in DOMAIN workouts : workouts_delete(id)
    \/ /\ NewId(workout_exercises) <= MaxWorkoutExercises
       /\ \E id \in DOMAIN workouts, e \in Ids(exercises) :
              workouts_add_exercise(id, WorkoutExerciseForm(e, "3", "10", "50"))
    \/ \E id \in DOMAIN workouts, x \in DOMAIN workout_exercises :
           workouts_delete_exercise(id, x)
    \/ /\ DOMAIN attachments = {}
       /\ Cardinality(UsedPaths) < MaxIntegrityRows
       /\ \E e \in Ids(exercises) : upload_file(e, Upload(PhotoPng, 1024))
    \/ \E a \in DOMAIN attachments : delete_file(a, FALSE)

SpecIntegrity == Init /\ [][NextIntegrity]_vars

(* C27: after any sequence of create, edit and delete operations         *)
(* performed one at a time, every WorkoutExercise references a workout   *)
(* and an exercise that exist, and every attachment bound to an exercise *)
(* references an exercise that exists                                    *)
C27_ReferencesExist ==
    /\ \A x \in DOMAIN workout_exercises :
          /\ workout_exercises[x].workout_id \in DOMAIN workouts
          /\ workout_exercises[x].exercise_id \in DOMAIN exercises
    /\ \A a \in DOMAIN attachments :
          attachments[a].exercise_id # NULL =>
              attachments[a].exercise_id \in DOMAIN exercises

(* an exercise has just been deleted; a performance and an attachment    *)
(* remain, and so does the file of an attachment whose row is gone       *)
C27_Witness ==
    /\ response.op = "exercises.delete"
    /\ response.result = "deleted"
    /\ DOMAIN workout_exercises # {}
    /\ DOMAIN attachments # {}
    /\ files # {attachments[a].file_path : a \in DOMAIN attachments}

-----------------------------------------------------------------------------
(* whose exercises a workout may use *)

(* C28: in every reachable state each WorkoutExercise references an      *)
(* exercise that the owner of its workout may access: one that is public *)
(* or owned by the workout's owner                                       *)
C28_OwnerMayAccess ==
    \A x \in DOMAIN workout_exercises :
        LET e == exercises[workout_exercises[x].exercise_id]
            w == workouts[workout_exercises[x].workout_id]
        IN  e.is_public \/ e.owner_id = w.owner_id

-----------------------------------------------------------------------------
(* what an edit leaves alone *)

(* the ids of a table and the owner of each row *)
Owners(table) == [id \in DOMAIN table |-> table[id].owner_id]

C29_Step ==
    /\ response'.op = "exercises.edit" =>
          /\ Owners(exercises') = Owners(exercises)
          /\ UNCHANGED <<workouts, workout_exercises, attachments>>
    /\ response'.op = "workouts.edit" =>
          /\ Owners(workouts') = Owners(workouts)
          /\ UNCHANGED <<exercises, workout_exercises, attachments>>
    /\ response'.op = "exercises.create" =>
          /\ \A e \in DOMAIN exercises :
                e \in DOMAIN exercises' /\ exercises'[e] = exercises[e]
          /\ \A e \in DOMAIN exercises' \ DOMAIN exercises :
                exercises'[e].owner_id = current_user

(* C29: editing an exercise or a workout never changes its owner or      *)
(* identity: after an edit, also one by an admin on another user's       *)
(* entity, owner_id and id are unchanged and so are the entity's         *)
(* WorkoutExercises and attachments; an exercise created through the     *)
(* application is owned by its creator                                   *)
C29_EditKeepsOwner == [][C29_Step]_vars

(* an admin has just saved an edit of another user's exercise that is    *)
(* performed in a workout and has an attachment, and it is still theirs  *)
C29_Witness ==
    /\ response.op = "exercises.edit"
    /\ response.result = "saved"
    /\ Role(current_user) = "admin"
    /\ exercises[response.target].owner_id = 2
    /\ ExerciseWorkoutExercises(response.target) # {}
    /\ ExerciseAttachments(response.target) # {}

-----------------------------------------------------------------------------
(* the files the rows answer for *)

(* C30: whenever the record of an attachment is removed its file is      *)
(* removed too: after any uploads, attachment deletions and exercise     *)
(* deletions without file-system errors, every file an upload wrote      *)
(* still has an attachment record that points to it                      *)
C30_NoOrphanFile ==
    \A p \in files : \E a \in DOMAIN attachments : attachments[a].file_path = p
====
